---- MODULE Spec2Model ----
(***************************************************************************)
(* resource-collector-component: the collection engine, its bounded run    *)
(* history behind the RWMutex mu, and the tool dispatch that reads it.     *)
(* Every request handler is a process p; a handler is cut into steps at    *)
(* the points where it reads the clock, calls the network or takes mu.     *)
(***************************************************************************)
EXTENDS Integers, Sequences, FiniteSets, TLC

\* ------------------------------------------------------------------ bounds

\* how many entries of the catalog and of the region list the model keeps
NumResources == 2
NumRegions == 2
\* collections started in one behaviour of Spec
MaxCollections == 2
\* collections started in one behaviour of SpecHist (enough to overflow MaxRuns)
HistCollections == 52
\* clock ticks per second of the RFC3339 timestamps
TicksPerSecond == 2
\* length of the raw resource_ids array in SpecScan
MaxFilterLen == 2
\* downstream calls made in one behaviour
MaxCalls == 1
\* fetches that fail in one behaviour of Spec
MaxFaults == 1
\* fetches of one scan of SpecScan that give neither "http 500" nor one point
MaxRare == 1
\* collections started in one behaviour of SpecStatus (more than StatusRuns)
StatusCollections == 12
\* the last year the clock of global-mcp-component reaches; it starts in 2023
LastYear == 2026

\* ------------------------------------------------------- program constants

\* capacity of the run history
MaxRuns == 50
\* number of runs collector.status reports
StatusRuns == 10

Procs == {1, 2}

\* ------------------------------------------------------------ static data

fullCatalog ==
  << [ID |-> "crude-oil",      Unit |-> "million barrels/day",  Indicator |-> "EG.ELC.PETR.ZS"],
     [ID |-> "natural-gas",    Unit |-> "billion cubic meters", Indicator |-> "EG.ELC.NGAS.ZS"],
     [ID |-> "coal",           Unit |-> "million tonnes",       Indicator |-> "EG.ELC.COAL.ZS"],
     [ID |-> "lithium",        Unit |-> "thousand tonnes LCE",  Indicator |-> "TX.VAL.MMTL.ZS.UN"],
     [ID |-> "iron-ore",       Unit |-> "million tonnes",       Indicator |-> "TX.VAL.MMTL.ZS.UN"],
     [ID |-> "wheat",          Unit |-> "million tonnes",       Indicator |-> "AG.PRD.FOOD.XD"],
     [ID |-> "rice",           Unit |-> "million tonnes",       Indicator |-> "AG.PRD.FOOD.XD"],
     [ID |-> "semiconductors", Unit |-> "billion USD",          Indicator |-> "NV.IND.MANF.ZS"],
     [ID |-> "rare-earth",     Unit |-> "thousand tonnes",      Indicator |-> "TX.VAL.MMTL.ZS.UN"],
     [ID |-> "copper",         Unit |-> "million tonnes",       Indicator |-> "TX.VAL.MMTL.ZS.UN"] >>

fullRegions ==
  << [Code |-> "USA", Name |-> "United States"],  [Code |-> "CHN", Name |-> "China"],
     [Code |-> "JPN", Name |-> "Japan"],          [Code |-> "DEU", Name |-> "Germany"],
     [Code |-> "GBR", Name |-> "United Kingdom"], [Code |-> "IND", Name |-> "India"],
     [Code |-> "FRA", Name |-> "France"],         [Code |-> "BRA", Name |-> "Brazil"],
     [Code |-> "SAU", Name |-> "Saudi Arabia"],   [Code |-> "RUS", Name |-> "Russia"],
     [Code |-> "AUS", Name |-> "Australia"],      [Code |-> "KOR", Name |-> "South Korea"],
     [Code |-> "TWN", Name |-> "Taiwan"],         [Code |-> "CHL", Name |-> "Chile"],
     [Code |-> "ARG", Name |-> "Argentina"] >>

Min(a, b) == IF a < b THEN a ELSE b

\* the catalog and the regions, cut to the model's bounds
catalog == SubSeq(fullCatalog, 1, Min(NumResources, Len(fullCatalog)))
regions == SubSeq(fullRegions, 1, Min(NumRegions, Len(fullRegions)))

CatalogIDs == {catalog[i].ID : i \in 1..Len(catalog)}

\* strings.ToLower on the region codes
ToLower(s) ==
  CASE s = "USA" -> "usa" [] s = "CHN" -> "chn" [] s = "JPN" -> "jpn"
    [] s = "DEU" -> "deu" [] s = "GBR" -> "gbr" [] s = "IND" -> "ind"
    [] s = "FRA" -> "fra" [] s = "BRA" -> "bra" [] s = "SAU" -> "sau"
    [] s = "RUS" -> "rus" [] s = "AUS" -> "aus" [] s = "KOR" -> "kor"
    [] s = "TWN" -> "twn" [] s = "CHL" -> "chl" [] s = "ARG" -> "arg"
    [] OTHER -> s

\* fmt's %d: the decimal digits of n
Digit(d) ==
  CASE d = 0 -> "0" [] d = 1 -> "1" [] d = 2 -> "2" [] d = 3 -> "3" [] d = 4 -> "4"
    [] d = 5 -> "5" [] d = 6 -> "6" [] d = 7 -> "7" [] d = 8 -> "8" [] d = 9 -> "9"

RECURSIVE Itoa(_)
Itoa(n) ==
  IF n < 0 THEN "-" \o Itoa(0 - n)
  ELSE IF n < 10 THEN Digit(n)
  ELSE Itoa(n \div 10) \o Digit(n % 10)

\* ------------------------------------------------------ JSON argument values

\* a decoded JSON value (Go's any): null, a number, a string or an array.
\* A string is its text without the surrounding white space (s) and whether
\* it had any (ws).
JNull == [t |-> "null", n |-> 0, s |-> "", ws |-> FALSE, a |-> <<>>]
JNum(k) == [t |-> "num", n |-> k, s |-> "", ws |-> FALSE, a |-> <<>>]
JStr(str, padded) == [t |-> "str", n |-> 0, s |-> str, ws |-> padded, a |-> <<>>]
JArr(seq) == [t |-> "arr", n |-> 0, s |-> "", ws |-> FALSE, a |-> seq]

\* strings.TrimSpace
TrimSpace(v) == v.s

\* fmt.Sscanf(s, "%d", &n) on the strings the model uses
Sscanf(s) ==
  CASE s = "2021" -> 2021 [] s = "2022" -> 2022 [] s = "2023" -> 2023
    [] OTHER -> 0

toStringSliceKeep(x) == x.t = "str" /\ TrimSpace(x) # ""

toStringSlice(v) ==
  LET raw == IF v.t = "arr" THEN v.a ELSE <<>>
      kept == SelectSeq(raw, toStringSliceKeep)
  IN [i \in 1..Len(kept) |-> TrimSpace(kept[i])]

strVal(v) == IF v.t = "str" THEN TrimSpace(v) ELSE ""

toInt(v) ==
  CASE v.t = "num" -> v.n
    [] v.t = "str" -> Sscanf(TrimSpace(v))
    [] OTHER -> 0

\* ------------------------------------------------- external data source client

\* One HTTP exchange with the World Bank API: the transport may fail; else a
\* status code and a body, which is JSON or not, a top-level array of rawLen
\* elements whose second element parses as the entry list or not.
Response(transportOK, code, isJSON, rawLen, entriesOK, entries) ==
  [transportOK |-> transportOK, code |-> code, isJSON |-> isJSON,
   rawLen |-> rawLen, entriesOK |-> entriesOK, entries |-> entries]

Entry(date, hasValue, value) == [Date |-> date, HasValue |-> hasValue, Value |-> value]

OkResponse(entries) == Response(TRUE, 200, TRUE, 2, TRUE, entries)

\* fmt.Errorf("http %d", resp.StatusCode)
HttpDetail(code) == "http " \o Itoa(code)

\* the date range of the request URL
dateRange(targetYear) ==
  IF targetYear > 0 THEN Itoa(targetYear) \o ":" \o Itoa(targetYear) ELSE "2020:2024"

\* the request a fetch sends
fetchRequest(indicator, countryCode, targetYear) ==
  [country |-> ToLower(countryCode), indicator |-> indicator, date |-> dateRange(targetYear)]

\* the loop over the entries: a null value or a date without a year is skipped
RECURSIVE entryPoints(_)
entryPoints(entries) ==
  IF entries = <<>> THEN <<>>
  ELSE LET e == Head(entries)
           year == Sscanf(e.Date)
       IN (IF ~e.HasValue \/ year = 0 THEN <<>> ELSE <<[year |-> year, value |-> e.Value]>>)
          \o entryPoints(Tail(entries))

\* sort.Slice(points, year descending): insertion sort, as Go does for short slices
RECURSIVE insertDesc(_, _)
insertDesc(sorted, pt) ==
  IF sorted = <<>> THEN <<pt>>
  ELSE IF pt.year > sorted[Len(sorted)].year
       THEN insertDesc(SubSeq(sorted, 1, Len(sorted) - 1), pt) \o <<sorted[Len(sorted)]>>
       ELSE sorted \o <<pt>>

RECURSIVE sortDesc(_)
sortDesc(points) ==
  IF points = <<>> THEN <<>>
  ELSE insertDesc(sortDesc(SubSeq(points, 1, Len(points) - 1)), points[Len(points)])

\* fetchWorldBankData on the response resp to its request
fetchWorldBankData(resp) ==
  IF ~resp.transportOK THEN [err |-> TRUE, detail |-> "http: transport", points |-> <<>>]
  ELSE IF resp.code < 200 \/ resp.code > 299
       THEN [err |-> TRUE, detail |-> HttpDetail(resp.code), points |-> <<>>]
  ELSE IF ~resp.isJSON THEN [err |-> TRUE, detail |-> "json: syntax", points |-> <<>>]
  ELSE IF resp.rawLen < 2 THEN [err |-> TRUE, detail |-> "no data", points |-> <<>>]
  ELSE IF ~resp.entriesOK THEN [err |-> TRUE, detail |-> "parse entries: type", points |-> <<>>]
  ELSE [err |-> FALSE, detail |-> "", points |-> sortDesc(entryPoints(resp.entries))]

\* ------------------------------------------------------------------ state

VARIABLES
  runs,             \* the run history (var runs []collectionRun)
  mu,               \* the RWMutex: its writer (0: none) and its readers
  clock,            \* time.Now(), in ticks
  pc,               \* where each handler stands
  req,              \* the request each handler serves
  now,              \* executeCollection's now
  run,              \* executeCollection's run
  targetResources,  \* executeCollection's targetResources
  idx,              \* the scan's position: <<index in targetResources, index in regions>>
  values,           \* publishToMCP's values
  ret,              \* the response of each handler's last request
  calls,            \* the downstream calls made so far (callExternalMCPTool)
  fetched,          \* the fetches of each handler's collection, in order
  appended,         \* every run appended to the history, in order
  started,          \* the number of collections started
  gmcp              \* global-mcp-component: its clock's year, its last call and answer

vars == <<runs, mu, clock, pc, req, now, run, targetResources, idx, values, ret,
          calls, fetched, appended, started, gmcp>>

\* now.Format(time.RFC3339): the time to the second; the clock starts at midnight
Pad2(n) == IF n < 10 THEN "0" \o Itoa(n) ELSE Itoa(n)
RFC3339(t) ==
  LET sec == t \div TicksPerSecond
  IN "2026-01-01T00:" \o Pad2((sec \div 60) % 60) \o ":" \o Pad2(sec % 60) \o "Z"
\* a timestamp not set (omitempty)
NoTime == ""

\* fmt.Sprintf("run-%d", now.UnixNano())
RunID(t) == "run-" \o Itoa(t)

NoRun ==
  [ID |-> "", StartedAt |-> NoTime, FinishedAt |-> NoTime, Status |-> "",
   Resources |-> 0, Collected |-> 0, Errors |-> <<>>, Values |-> <<>>]

NoArgs ==
  [resource_ids |-> JNull, year |-> JNull, resource_id |-> JNull, run_id |-> JNull,
   target_mcp_url |-> JNull]

NoReq == [route |-> "", method |-> "", name |-> "", args |-> NoArgs]
\* the arguments of a call to global-mcp-component
NoGArgs == [resource_id |-> JNull, year |-> JNull]
NoRet == [kind |-> "none"]

Init ==
  /\ runs = <<>>
  /\ mu = [writer |-> 0, readers |-> {}]
  /\ clock = 0
  /\ pc = [p \in Procs |-> "idle"]
  /\ req = [p \in Procs |-> NoReq]
  /\ now = [p \in Procs |-> 0]
  /\ run = [p \in Procs |-> NoRun]
  /\ targetResources = [p \in Procs |-> <<>>]
  /\ idx = [p \in Procs |-> <<1, 1>>]
  /\ values = [p \in Procs |-> <<>>]
  /\ ret = [p \in Procs |-> NoRet]
  /\ calls = <<>>
  /\ fetched = [p \in Procs |-> <<>>]
  /\ appended = <<>>
  /\ started = 0
  /\ gmcp = [year |-> 2023, name |-> "", args |-> NoGArgs, ret |-> NoRet]

\* ------------------------------------------------------- collection engine

\* the filter of executeCollection: catalog entries whose id is in filterIDs
inIDSet(filterIDs, id) == \E i \in 1..Len(filterIDs) : filterIDs[i] = id

\* mutant of filterCatalog: the entries are taken in the order of the filter
RECURSIVE filterCatalogInFilterOrder(_, _)
filterCatalogInFilterOrder(filterIDs, i) ==
  IF i > Len(filterIDs) THEN <<>>
  ELSE SelectSeq(catalog, LAMBDA r : r.ID = filterIDs[i])
       \o filterCatalogInFilterOrder(filterIDs, i + 1)

RECURSIVE filterCatalog(_, _)
filterCatalog(filterIDs, i) ==
  IF i > Len(catalog) THEN <<>>
  ELSE (IF inIDSet(filterIDs, catalog[i].ID) THEN <<catalog[i]>> ELSE <<>>)
       \o filterCatalog(filterIDs, i + 1)

\* mutant of resolveTargets: a filter that matches nothing gives the full catalog
resolveTargetsOrAll(filterIDs) ==
  IF Len(filterIDs) > 0 /\ filterCatalog(filterIDs, 1) # <<>>
  THEN filterCatalog(filterIDs, 1) ELSE catalog

resolveTargets(filterIDs) ==
  IF Len(filterIDs) > 0 THEN filterCatalog(filterIDs, 1) ELSE catalog

\* the run a collection starts with
newRun(t) ==
  [ID |-> RunID(t), StartedAt |-> RFC3339(t), FinishedAt |-> NoTime, Status |-> "running",
   Resources |-> 0, Collected |-> 0, Errors |-> <<>>, Values |-> <<>>]

\* executeCollection up to its scan: now, the run, the target resources
executeCollection(p, filterIDs, dt) ==
  LET t == clock + dt
      targets == resolveTargets(filterIDs)
  IN /\ clock' = t
     /\ now' = [now EXCEPT ![p] = t]
     /\ targetResources' = [targetResources EXCEPT ![p] = targets]
     /\ run' = [run EXCEPT ![p] = [newRun(t) EXCEPT !.Resources = Len(targets)]]
     /\ idx' = [idx EXCEPT ![p] = <<1, 1>>]
     /\ fetched' = [fetched EXCEPT ![p] = <<>>]
     /\ started' = started + 1
     /\ pc' = [pc EXCEPT ![p] = IF targets = <<>> \/ regions = <<>> THEN "finish" ELSE "scan"]

\* callTool "collector.run"
CallRun(p, ArgSet, Ticks, limit) ==
  /\ pc[p] = "idle"
  /\ started < limit
  /\ \E args \in ArgSet, dt \in Ticks :
       /\ req' = [req EXCEPT ![p] = [route |-> "/api/mcp", method |-> "POST",
                                     name |-> "collector.run", args |-> args]]
       /\ executeCollection(p, toStringSlice(args.resource_ids), dt)
  /\ ret' = [ret EXCEPT ![p] = NoRet]
  /\ UNCHANGED <<gmcp, runs, mu, values, calls, appended>>

\* mutant of collectedValue: the value is stamped with the time of its fetch
collectedValueAtFetch(res, reg, pt, t) ==
  [ResourceID |-> res.ID, Region |-> reg.Code, RegionName |-> reg.Name, Year |-> pt.year,
   Value |-> pt.value, Unit |-> res.Unit, Source |-> "World Bank API",
   FetchedAt |-> RFC3339(clock)]

\* the collectedValue of one point
collectedValue(res, reg, pt, t) ==
  [ResourceID |-> res.ID, Region |-> reg.Code, RegionName |-> reg.Name, Year |-> pt.year,
   Value |-> pt.value, Unit |-> res.Unit, Source |-> "World Bank API", FetchedAt |-> RFC3339(t)]

\* fmt.Sprintf("%s/%s: %v", res.ID, reg.Code, err)
errorEntry(res, reg, detail) == res.ID \o "/" \o reg.Code \o ": " \o detail

\* mutants of scanStep: the values of a fetch are put before the earlier ones;
\* the values of a fetch replace the earlier ones
scanStepPrepend(r, res, reg, out, t) ==
  IF out.err
  THEN [r EXCEPT !.Errors = Append(@, errorEntry(res, reg, out.detail))]
  ELSE [r EXCEPT !.Values =
          [i \in 1..Len(out.points) |-> collectedValue(res, reg, out.points[i], t)] \o @]

scanStepOverwrite(r, res, reg, out, t) ==
  IF out.err
  THEN [r EXCEPT !.Errors = Append(@, errorEntry(res, reg, out.detail))]
  ELSE [r EXCEPT !.Values =
          [i \in 1..Len(out.points) |-> collectedValue(res, reg, out.points[i], t)]]

\* the body of the scan for one (resource, region): the run after the fetch
scanStep(r, res, reg, out, t) ==
  IF out.err
  THEN [r EXCEPT !.Errors = Append(@, errorEntry(res, reg, out.detail))]
  ELSE [r EXCEPT !.Values =
          @ \o [i \in 1..Len(out.points) |-> collectedValue(res, reg, out.points[i], t)]]

\* the next position of the scan: regions inner, resources outer
nextIdx(ix) == IF ix[2] < Len(regions) THEN <<ix[1], ix[2] + 1>> ELSE <<ix[1] + 1, 1>>

\* mutant of scanPc: a failed fetch ends the scan
scanPcAbort(nxt, targets, out) ==
  IF out.err \/ nxt[1] > Len(targets) THEN "finish" ELSE "scan"

\* where the scan stands after a fetch: a failure continues with the next pair,
\* as a success does; the scan ends after the last pair
scanPc(nxt, targets, out) == IF nxt[1] > Len(targets) THEN "finish" ELSE "scan"

\* one iteration of the scan: the fetch of one pair, which takes some time, and
\* what the run keeps of it
Fetch(p, Resps, Ticks) ==
  /\ pc[p] = "scan"
  /\ LET res == targetResources[p][idx[p][1]]
         reg == regions[idx[p][2]]
         nxt == nextIdx(idx[p])
     IN \E resp \in Resps, dt \in Ticks :
          LET out == fetchWorldBankData(resp)
          IN /\ clock' = clock + dt
             /\ run' = [run EXCEPT ![p] = scanStep(@, res, reg, out, now[p])]
             /\ fetched' = [fetched EXCEPT ![p] = Append(@,
                   [request |-> fetchRequest(res.Indicator, reg.Code, toInt(req[p].args.year)),
                    resource |-> res.ID, region |-> reg.Code,
                    err |-> out.err, detail |-> out.detail, points |-> out.points])]
             /\ idx' = [idx EXCEPT ![p] = nxt]
             /\ pc' = [pc EXCEPT ![p] = scanPc(nxt, targetResources[p], out)]
  /\ UNCHANGED <<gmcp, runs, mu, req, now, targetResources, values, ret, calls, appended, started>>

\* mutant of deriveStatus: a run without values has failed, errors or not
deriveStatusByCount(r) ==
  IF r.Collected = 0 THEN "failed"
  ELSE IF Len(r.Errors) > 0 THEN "partial"
  ELSE "completed"

\* the status of a finished run
deriveStatus(r) ==
  IF Len(r.Errors) > 0 /\ r.Collected = 0 THEN "failed"
  ELSE IF Len(r.Errors) > 0 THEN "partial"
  ELSE "completed"

\* mutants of finishRun: the count is that of the pairs fetched without error;
\* the status is left as it was
finishRunCountsPairs(r, t) ==
  LET counted == [r EXCEPT !.Collected = r.Resources * Len(regions) - Len(r.Errors),
                           !.FinishedAt = RFC3339(t)]
  IN [counted EXCEPT !.Status = deriveStatus(counted)]

finishRunKeepsStatus(r, t) == [r EXCEPT !.Collected = Len(r.Values), !.FinishedAt = RFC3339(t)]

\* the run after the scan: its count, its finish time, its status
finishRun(r, t) ==
  LET counted == [r EXCEPT !.Collected = Len(r.Values), !.FinishedAt = RFC3339(t)]
  IN [counted EXCEPT !.Status = deriveStatus(counted)]

Finish(p, Ticks) ==
  /\ pc[p] = "finish"
  /\ \E dt \in Ticks :
       /\ clock' = clock + dt
       /\ run' = [run EXCEPT ![p] = finishRun(@, clock + dt)]
  /\ pc' = [pc EXCEPT ![p] = "lock"]
  /\ UNCHANGED <<gmcp, runs, mu, req, now, targetResources, idx, values, ret, calls, fetched,
                 appended, started>>

\* mu.Lock()
Lock(p) ==
  /\ pc[p] = "lock"
  /\ mu.writer = 0 /\ mu.readers = {}
  /\ mu' = [mu EXCEPT !.writer = p]
  /\ pc' = [pc EXCEPT ![p] = "append"]
  /\ UNCHANGED <<gmcp, runs, clock, req, now, run, targetResources, idx, values, ret, calls,
                 fetched, appended, started>>

\* mutant of AppendRun: the run is put into the history twice
AppendRunTwice(p) ==
  /\ pc[p] = "append"
  /\ runs' = Append(Append(runs, run[p]), run[p])
  /\ appended' = Append(appended, run[p])
  /\ pc' = [pc EXCEPT ![p] = "trim"]
  /\ UNCHANGED <<gmcp, mu, clock, req, now, run, targetResources, idx, values, ret, calls,
                 fetched, started>>

\* runs = append(runs, run)
AppendRun(p) ==
  /\ pc[p] = "append"
  /\ runs' = Append(runs, run[p])
  /\ appended' = Append(appended, run[p])
  /\ pc' = [pc EXCEPT ![p] = "trim"]
  /\ UNCHANGED <<gmcp, mu, clock, req, now, run, targetResources, idx, values, ret, calls,
                 fetched, started>>

\* mutants of trimRuns: the trim starts one run late; the trim keeps the oldest runs
trimRunsLate(rs) ==
  IF Len(rs) > MaxRuns + 1 THEN SubSeq(rs, Len(rs) - MaxRuns + 1, Len(rs)) ELSE rs

trimRunsOldest(rs) == IF Len(rs) > MaxRuns THEN SubSeq(rs, 1, MaxRuns) ELSE rs

\* if len(runs) > 50 { runs = runs[len(runs)-50:] }
trimRuns(rs) == IF Len(rs) > MaxRuns THEN SubSeq(rs, Len(rs) - MaxRuns + 1, Len(rs)) ELSE rs

Trim(p) ==
  /\ pc[p] = "trim"
  /\ runs' = trimRuns(runs)
  /\ pc' = [pc EXCEPT ![p] = "unlock"]
  /\ UNCHANGED <<gmcp, mu, clock, req, now, run, targetResources, idx, values, ret, calls,
                 fetched, appended, started>>

\* mutant of runResponse: the trigger answers with the requested count
runResponseRequested(rq, r) ==
  IF rq.name = "collector.run"
  THEN [kind |-> "result", name |-> rq.name, run |-> r]
  ELSE [kind |-> "http", code |-> 200, status |-> "triggered", run_id |-> r.ID,
        collected |-> r.Resources]

\* mutant of runResponse: collector.run answers with the run without its values
runResponseStripped(rq, r) ==
  IF rq.name = "collector.run"
  THEN [kind |-> "result", name |-> rq.name, run |-> [r EXCEPT !.Values = <<>>]]
  ELSE [kind |-> "http", code |-> 200, status |-> "triggered", run_id |-> r.ID,
        collected |-> r.Collected]

\* what the caller of executeCollection answers with the returned run
runResponse(rq, r) ==
  IF rq.name = "collector.run"
  THEN [kind |-> "result", name |-> rq.name, run |-> r]
  ELSE [kind |-> "http", code |-> 200, status |-> "triggered", run_id |-> r.ID,
        collected |-> r.Collected]

\* mutant of Unlock: the handler returns without mu.Unlock()
UnlockForgotten(p) ==
  /\ pc[p] = "unlock"
  /\ ret' = [ret EXCEPT ![p] = runResponse(req[p], run[p])]
  /\ pc' = [pc EXCEPT ![p] = "idle"]
  /\ req' = [req EXCEPT ![p] = NoReq]
  /\ now' = [now EXCEPT ![p] = 0]
  /\ run' = [run EXCEPT ![p] = NoRun]
  /\ targetResources' = [targetResources EXCEPT ![p] = <<>>]
  /\ idx' = [idx EXCEPT ![p] = <<1, 1>>]
  /\ fetched' = [fetched EXCEPT ![p] = <<>>]
  /\ UNCHANGED <<gmcp, runs, mu, clock, values, calls, appended, started>>

\* mu.Unlock(); return run; the caller answers
Unlock(p) ==
  /\ pc[p] = "unlock"
  /\ mu' = [mu EXCEPT !.writer = 0]
  /\ ret' = [ret EXCEPT ![p] = runResponse(req[p], run[p])]
  /\ pc' = [pc EXCEPT ![p] = "idle"]
  /\ req' = [req EXCEPT ![p] = NoReq]
  /\ now' = [now EXCEPT ![p] = 0]
  /\ run' = [run EXCEPT ![p] = NoRun]
  /\ targetResources' = [targetResources EXCEPT ![p] = <<>>]
  /\ idx' = [idx EXCEPT ![p] = <<1, 1>>]
  /\ fetched' = [fetched EXCEPT ![p] = <<>>]
  /\ UNCHANGED <<gmcp, runs, clock, values, calls, appended, started>>

\* handleSchedulerTrigger with POST: executeCollection(nil, 0)
TriggerPost(p, Ticks, limit) ==
  /\ pc[p] = "idle"
  /\ started < limit
  /\ req' = [req EXCEPT ![p] = [route |-> "/scheduler/trigger", method |-> "POST",
                                name |-> "", args |-> NoArgs]]
  /\ \E dt \in Ticks : executeCollection(p, <<>>, dt)
  /\ ret' = [ret EXCEPT ![p] = NoRet]
  /\ UNCHANGED <<gmcp, runs, mu, values, calls, appended>>

\* handleSchedulerTrigger with another method: 405
TriggerOther(p, Methods) ==
  /\ pc[p] = "idle"
  /\ \E m \in Methods \ {"POST", "OPTIONS"} :
       ret' = [ret EXCEPT ![p] = [kind |-> "http", code |-> 405, error |-> "POST only",
                                  route |-> "/scheduler/trigger", method |-> m]]
  /\ UNCHANGED <<gmcp, runs, mu, clock, pc, req, now, run, targetResources, idx, values, calls,
                 fetched, appended, started>>

\* routeHandler with OPTIONS: handleCORS answers 204 before any routing
Preflight(p, Routes) ==
  /\ pc[p] = "idle"
  /\ \E r \in Routes :
       ret' = [ret EXCEPT ![p] = [kind |-> "http", code |-> 204, error |-> "",
                                  route |-> r, method |-> "OPTIONS"]]
  /\ UNCHANGED <<gmcp, runs, mu, clock, pc, req, now, run, targetResources, idx, values, calls,
                 fetched, appended, started>>

\* ------------------------------------------------------------ tool dispatch

\* a handler takes mu.RLock() on entering a reading tool
RLockFor(p, name, ArgSet, at) ==
  /\ pc[p] = "idle"
  /\ mu.writer = 0
  /\ \E args \in ArgSet :
       req' = [req EXCEPT ![p] = [route |-> "/api/mcp", method |-> "POST", name |-> name,
                                  args |-> args]]
  /\ mu' = [mu EXCEPT !.readers = @ \cup {p}]
  /\ pc' = [pc EXCEPT ![p] = at]
  /\ ret' = [ret EXCEPT ![p] = NoRet]
  /\ UNCHANGED <<gmcp, runs, clock, now, run, targetResources, idx, values, calls, fetched,
                 appended, started>>

\* the handler answers and mu.RUnlock() runs (deferred)
AnswerUnlock(p, answer) ==
  /\ ret' = [ret EXCEPT ![p] = answer]
  /\ mu' = [mu EXCEPT !.readers = @ \ {p}]
  /\ pc' = [pc EXCEPT ![p] = "idle"]
  /\ req' = [req EXCEPT ![p] = NoReq]
  /\ UNCHANGED <<gmcp, runs, clock, now, run, targetResources, idx, values, calls, fetched,
                 appended, started>>

ToolError(name, msg) == [kind |-> "error", name |-> name, message |-> msg]

\* "collector.status": at most the last StatusRuns runs, without their values
summary(r) ==
  [id |-> r.ID, started_at |-> r.StartedAt, finished_at |-> r.FinishedAt, status |-> r.Status,
   resources_requested |-> r.Resources, values_collected |-> r.Collected,
   error_count |-> Len(r.Errors)]

\* mutant of recentRuns: the oldest runs are reported
recentRunsOldest(rs) == IF Len(rs) > StatusRuns THEN SubSeq(rs, 1, StatusRuns) ELSE rs

recentRuns(rs) ==
  IF Len(rs) > StatusRuns THEN SubSeq(rs, Len(rs) - StatusRuns + 1, Len(rs)) ELSE rs

statusResult(rs) ==
  LET recent == recentRuns(rs)
      summaries == [i \in 1..Len(recent) |-> summary(recent[i])]
  IN [kind |-> "result", name |-> "collector.status", runs |-> summaries,
      count |-> Len(summaries)]

StatusLock(p) ==
  /\ pc[p] = "idle"
  /\ RLockFor(p, "collector.status", {NoArgs}, "status")

\* mutant of StatusRead: the values are stripped from the stored runs
StatusReadStripsValues(p) ==
  /\ pc[p] = "status"
  /\ runs' = [i \in 1..Len(runs) |-> [runs[i] EXCEPT !.Values = <<>>]]
  /\ ret' = [ret EXCEPT ![p] = statusResult(runs)]
  /\ mu' = [mu EXCEPT !.readers = @ \ {p}]
  /\ pc' = [pc EXCEPT ![p] = "idle"]
  /\ req' = [req EXCEPT ![p] = NoReq]
  /\ UNCHANGED <<gmcp, clock, now, run, targetResources, idx, values, calls, fetched,
                 appended, started>>

StatusRead(p) ==
  /\ pc[p] = "status"
  /\ AnswerUnlock(p, statusResult(runs))

\* "collector.list_catalog"
ListCatalog(p) ==
  /\ pc[p] = "idle"
  /\ ret' = [ret EXCEPT ![p] = [kind |-> "result", name |-> "collector.list_catalog",
                                resources |-> catalog, count |-> Len(catalog)]]
  /\ UNCHANGED <<gmcp, runs, mu, clock, pc, req, now, run, targetResources, idx, values, calls,
                 fetched, appended, started>>

\* mutant of firstWithID: the scan does not stop at the first match
RECURSIVE lastWithID(_, _, _)
lastWithID(rs, id, i) ==
  IF i > Len(rs) THEN 0
  ELSE LET later == lastWithID(rs, id, i + 1)
       IN IF later # 0 THEN later
          ELSE IF rs[i].ID = id THEN i
          ELSE 0

\* "collector.get_collected": the index of the target run in runs, 0 for nil
RECURSIVE firstWithID(_, _, _)
firstWithID(rs, id, i) ==
  IF i > Len(rs) THEN 0
  ELSE IF rs[i].ID = id THEN i
  ELSE firstWithID(rs, id, i + 1)

targetIndex(rs, runID) ==
  IF runID # "" THEN firstWithID(rs, runID, 1)
  ELSE IF Len(rs) > 0 THEN Len(rs)
  ELSE 0

\* the values with the given resource id, in order
RECURSIVE valuesOf(_, _)
valuesOf(vs, resourceID) ==
  IF vs = <<>> THEN <<>>
  ELSE (IF Head(vs).ResourceID = resourceID THEN <<Head(vs)>> ELSE <<>>)
       \o valuesOf(Tail(vs), resourceID)

getCollectedResult(rs, args) ==
  LET resourceID == strVal(args.resource_id)
      t == targetIndex(rs, strVal(args.run_id))
  IN IF t = 0 THEN ToolError("collector.get_collected", "no collection runs found")
     ELSE LET vs == IF resourceID # "" THEN valuesOf(rs[t].Values, resourceID)
                    ELSE rs[t].Values
          IN [kind |-> "result", name |-> "collector.get_collected", run_id |-> rs[t].ID,
              values |-> vs, count |-> Len(vs)]

GetLock(p, ArgSet) ==
  /\ pc[p] = "idle"
  /\ RLockFor(p, "collector.get_collected", ArgSet, "get")

GetRead(p) ==
  /\ pc[p] = "get"
  /\ AnswerUnlock(p, getCollectedResult(runs, req[p].args))

\* ------------------------------------------------------------ JSON-LD export

jsonldResource(v) ==
  [Context |-> "https://schema.org/", Type |-> "Observation",
   ID |-> "https://resources.gftd.ai/content/resource/" \o v.ResourceID \o "/"
            \o ToLower(v.Region) \o "/" \o Itoa(v.Year),
   Name |-> v.ResourceID \o " - " \o v.RegionName \o " (" \o Itoa(v.Year) \o ")",
   Region |-> v.RegionName, Year |-> v.Year, Value |-> v.Value, Unit |-> v.Unit,
   Source |-> v.Source, DateCreated |-> v.FetchedAt]

\* mutant of exportGraph: the resource filter is not applied
RECURSIVE exportGraphUnfiltered(_, _)
exportGraphUnfiltered(vs, resourceID) ==
  IF vs = <<>> THEN <<>>
  ELSE <<jsonldResource(Head(vs))>> \o exportGraphUnfiltered(Tail(vs), resourceID)

RECURSIVE exportGraph(_, _)
exportGraph(vs, resourceID) ==
  IF vs = <<>> THEN <<>>
  ELSE (IF resourceID # "" /\ Head(vs).ResourceID # resourceID THEN <<>>
        ELSE <<jsonldResource(Head(vs))>>)
       \o exportGraph(Tail(vs), resourceID)

\* mutant of exportJSONLD: without any run, an empty dataset
exportJSONLDEmptyDataset(rs, resourceID) ==
  IF Len(rs) = 0
  THEN [kind |-> "result", name |-> "collector.export_jsonld", type |-> "Dataset",
        dateCreated |-> NoTime, graph |-> <<>>, count |-> 0]
  ELSE LET latest == rs[Len(rs)]
           graph == exportGraph(latest.Values, resourceID)
       IN [kind |-> "result", name |-> "collector.export_jsonld", type |-> "Dataset",
           dateCreated |-> latest.FinishedAt, graph |-> graph, count |-> Len(graph)]

exportJSONLD(rs, resourceID) ==
  IF Len(rs) = 0
  THEN ToolError("collector.export_jsonld",
                 "no collection runs available; call collector.run first")
  ELSE LET latest == rs[Len(rs)]
           graph == exportGraph(latest.Values, resourceID)
       IN [kind |-> "result", name |-> "collector.export_jsonld", type |-> "Dataset",
           dateCreated |-> latest.FinishedAt, graph |-> graph, count |-> Len(graph)]

ExportLock(p, ArgSet) ==
  /\ pc[p] = "idle"
  /\ RLockFor(p, "collector.export_jsonld", ArgSet, "export")

ExportRead(p) ==
  /\ pc[p] = "export"
  /\ AnswerUnlock(p, exportJSONLD(runs, strVal(req[p].args.resource_id)))

\* ------------------------------------------------------------ publish to MCP

\* One exchange with the downstream MCP endpoint: as Response, with a body that
\* carries an "error" object or not
Reply(transportOK, code, isJSON, hasError, message) ==
  [transportOK |-> transportOK, code |-> code, isJSON |-> isJSON, hasError |-> hasError,
   message |-> message]

\* no exchange: the request was never sent
NoReply == Reply(FALSE, 0, FALSE, FALSE, "")

\* http.NewRequest fails on a URL that does not parse
urlParses(u) == u \notin {"http://[::1", "%zz"}

\* callExternalMCPTool once the request is sent
callExternalMCPTool(reply) ==
  IF ~reply.transportOK THEN [err |-> TRUE, detail |-> "transport"]
  ELSE IF reply.code < 200 \/ reply.code > 299
       THEN [err |-> TRUE, detail |-> HttpDetail(reply.code)]
  ELSE IF ~reply.isJSON THEN [err |-> TRUE, detail |-> "json: syntax"]
  ELSE IF reply.hasError THEN [err |-> TRUE, detail |-> "mcp error: " \o reply.message]
  ELSE [err |-> FALSE, detail |-> ""]

\* callTool "collector.publish": the target URL
targetURL(args) ==
  IF strVal(args.target_mcp_url) = "" THEN "https://actors.gftd.ai/w5n8p3q6/api/mcp"
  ELSE strVal(args.target_mcp_url)

PublishLock(p, ArgSet) ==
  /\ Len(calls) < MaxCalls
  /\ RLockFor(p, "collector.publish", ArgSet, "publish")

\* mutant of publishSkips: publish never skips
publishSkipsNever(vs) == FALSE

\* if len(values) == 0: nothing to publish
publishSkips(vs) == Len(vs) = 0

\* mutant of PublishRead: the read lock is kept for the downstream call
PublishReadKeepsLock(p) ==
  /\ pc[p] = "publish"
  /\ IF Len(runs) = 0
     THEN /\ ret' = [ret EXCEPT ![p] = ToolError("collector.publish",
                                          "no collection runs; call collector.run first")]
          /\ pc' = [pc EXCEPT ![p] = "idle"]
          /\ req' = [req EXCEPT ![p] = NoReq]
          /\ mu' = [mu EXCEPT !.readers = @ \ {p}]
          /\ UNCHANGED values
     ELSE IF publishSkips(runs[Len(runs)].Values)
     THEN /\ ret' = [ret EXCEPT ![p] = [kind |-> "result", name |-> "collector.publish",
                                        status |-> "skipped"]]
          /\ pc' = [pc EXCEPT ![p] = "idle"]
          /\ req' = [req EXCEPT ![p] = NoReq]
          /\ mu' = [mu EXCEPT !.readers = @ \ {p}]
          /\ UNCHANGED values
     ELSE /\ values' = [values EXCEPT ![p] = runs[Len(runs)].Values]
          /\ pc' = [pc EXCEPT ![p] = "call"]
          /\ UNCHANGED <<mu, ret, req>>
  /\ UNCHANGED <<gmcp, runs, clock, now, run, targetResources, idx, calls, fetched, appended, started>>

\* publishToMCP under the read lock: the latest run's values, or no run at all
PublishRead(p) ==
  /\ pc[p] = "publish"
  /\ mu' = [mu EXCEPT !.readers = @ \ {p}]
  /\ IF Len(runs) = 0
     THEN /\ ret' = [ret EXCEPT ![p] = ToolError("collector.publish",
                                          "no collection runs; call collector.run first")]
          /\ pc' = [pc EXCEPT ![p] = "idle"]
          /\ req' = [req EXCEPT ![p] = NoReq]
          /\ UNCHANGED values
     ELSE IF publishSkips(runs[Len(runs)].Values)
     THEN /\ ret' = [ret EXCEPT ![p] = [kind |-> "result", name |-> "collector.publish",
                                        status |-> "skipped"]]
          /\ pc' = [pc EXCEPT ![p] = "idle"]
          /\ req' = [req EXCEPT ![p] = NoReq]
          /\ UNCHANGED values
     ELSE /\ values' = [values EXCEPT ![p] = runs[Len(runs)].Values]
          /\ pc' = [pc EXCEPT ![p] = "call"]
          /\ UNCHANGED <<ret, req>>
  /\ UNCHANGED <<gmcp, runs, clock, now, run, targetResources, idx, calls, fetched, appended, started>>

\* mutant of publishResult: a failed downstream call is raised as an error
publishResultRaises(out, vs, url) ==
  IF out.err
  THEN ToolError("collector.publish", out.detail)
  ELSE [kind |-> "result", name |-> "collector.publish", status |-> "published",
        values_count |-> Len(vs), target_url |-> url]

\* what publishToMCP answers after callExternalMCPTool returned
publishResult(out, vs, url) ==
  IF out.err
  THEN [kind |-> "result", name |-> "collector.publish", status |-> "error",
        detail |-> out.detail]
  ELSE [kind |-> "result", name |-> "collector.publish", status |-> "published",
        values_count |-> Len(vs), target_url |-> url]

\* publishToMCP after the lock: the one call of callExternalMCPTool, which sends
\* its request unless the URL does not parse, and the answer
PublishCall(p, Replies) ==
  /\ pc[p] = "call"
  /\ LET url == targetURL(req[p].args)
     IN IF ~urlParses(url)
        THEN /\ calls' = Append(calls, [by |-> p, url |-> url, sent |-> FALSE,
                                        tool |-> "global.list_resources",
                                        reply |-> NoReply])
             /\ ret' = [ret EXCEPT ![p] =
                  publishResult([err |-> TRUE, detail |-> "parse url"], values[p], url)]
        ELSE \E reply \in Replies :
               /\ calls' = Append(calls, [by |-> p, url |-> url, sent |-> TRUE,
                                          tool |-> "global.list_resources",
                                          reply |-> reply])
               /\ ret' = [ret EXCEPT ![p] =
                    publishResult(callExternalMCPTool(reply), values[p], url)]
  /\ pc' = [pc EXCEPT ![p] = "idle"]
  /\ req' = [req EXCEPT ![p] = NoReq]
  /\ values' = [values EXCEPT ![p] = <<>>]
  /\ UNCHANGED <<gmcp, runs, mu, clock, now, run, targetResources, idx, fetched, appended, started>>

\* the names callTool's switch knows
ToolNames ==
  {"collector.run", "collector.status", "collector.list_catalog", "collector.get_collected",
   "collector.export_jsonld", "collector.publish"}

\* mutant of unknownToolError: the message does not tell the name
unknownToolErrorAnonymous(name) == ToolError(name, "unknown tool")

\* fmt.Errorf("unknown tool: %s", name)
unknownToolError(name) == ToolError(name, "unknown tool: " \o name)

\* callTool with a name that is no tool: the default branch of the switch
CallUnknown(p, Names) ==
  /\ pc[p] = "idle"
  /\ \E name \in Names \ ToolNames :
       ret' = [ret EXCEPT ![p] = unknownToolError(name)]
  /\ UNCHANGED <<gmcp, runs, mu, clock, pc, req, now, run, targetResources, idx, values, calls,
                 fetched, appended, started>>

\* ------------------------------------------------- global-mcp-component

\* var flows; Volume in tenths
flows ==
  << [ID |-> "oil-sa-cn-2023", ResourceID |-> "crude-oil", SourceRegion |-> "sa",
      TargetRegion |-> "cn", Year |-> 2023, Volume |-> 18, Value |-> 49],
     [ID |-> "oil-us-eu-2023", ResourceID |-> "crude-oil", SourceRegion |-> "us",
      TargetRegion |-> "eu", Year |-> 2023, Volume |-> 12, Value |-> 33],
     [ID |-> "chip-tw-us-2023", ResourceID |-> "semiconductors", SourceRegion |-> "tw",
      TargetRegion |-> "us", Year |-> 2023, Volume |-> 380, Value |-> 64],
     [ID |-> "chip-kr-us-2023", ResourceID |-> "semiconductors", SourceRegion |-> "kr",
      TargetRegion |-> "us", Year |-> 2023, Volume |-> 280, Value |-> 41] >>

\* strings.ToUpper on the region ids of the flows
ToUpper(s) ==
  CASE s = "sa" -> "SA" [] s = "cn" -> "CN" [] s = "us" -> "US" [] s = "eu" -> "EU"
    [] s = "tw" -> "TW" [] s = "kr" -> "KR" [] OTHER -> s

\* the place of a node id in the order of strings
IDRank(id) ==
  CASE id = "region:cn" -> 1 [] id = "region:eu" -> 2 [] id = "region:kr" -> 3
    [] id = "region:sa" -> 4 [] id = "region:tw" -> 5 [] id = "region:us" -> 6

\* args[key].(string): the string as it is, with its white space
rawString(v) ==
  IF v.t = "str" THEN (IF v.ws THEN " " \o v.s \o " " ELSE v.s) ELSE ""

\* strconv.Atoi on the strings the model uses
Atoi(str) ==
  CASE str = "2023" -> 2023 [] str = "2024" -> 2024 [] str = "0" -> 0
    [] OTHER -> 0

\* toInt of global-mcp-component
globalToInt(v) ==
  CASE v.t = "num" -> v.n
    [] v.t = "str" -> Atoi(rawString(v))
    [] OTHER -> 0

GraphNode(id, label, color) ==
  [ID |-> id, Label |-> label, Type |-> "region", Value |-> 1, Color |-> color, Size |-> 14]

hasNode(nodes, id) == \E i \in 1..Len(nodes) : nodes[i].ID = id

\* the loop of buildGraph over the flows: the nodes in the order they are first
\* seen, and the edges
RECURSIVE graphLoop(_, _, _, _, _)
graphLoop(fs, nodes, edges, resourceID, year) ==
  IF fs = <<>> THEN [nodes |-> nodes, edges |-> edges]
  ELSE LET f == Head(fs)
       IN IF (resourceID # "" /\ f.ResourceID # resourceID) \/ (year > 0 /\ f.Year # year)
          THEN graphLoop(Tail(fs), nodes, edges, resourceID, year)
          ELSE LET sid == "region:" \o f.SourceRegion
                   tid == "region:" \o f.TargetRegion
                   n1 == IF hasNode(nodes, sid) THEN nodes
                         ELSE Append(nodes, GraphNode(sid, ToUpper(f.SourceRegion), "#3b82f6"))
                   n2 == IF hasNode(n1, tid) THEN n1
                         ELSE Append(n1, GraphNode(tid, ToUpper(f.TargetRegion), "#10b981"))
               IN graphLoop(Tail(fs), n2,
                            Append(edges, [Source |-> sid, Target |-> tid, Weight |-> f.Volume,
                                           Color |-> "#9ca3af"]),
                            resourceID, year)

\* sort.Slice(outNodes, by ID)
RECURSIVE insertByID(_, _)
insertByID(sorted, n) ==
  IF sorted = <<>> THEN <<n>>
  ELSE IF IDRank(n.ID) < IDRank(sorted[Len(sorted)].ID)
       THEN insertByID(SubSeq(sorted, 1, Len(sorted) - 1), n) \o <<sorted[Len(sorted)]>>
       ELSE sorted \o <<n>>

RECURSIVE sortByID(_)
sortByID(nodes) ==
  IF nodes = <<>> THEN <<>>
  ELSE insertByID(sortByID(SubSeq(nodes, 1, Len(nodes) - 1)), nodes[Len(nodes)])

buildGraph(resourceID, year) ==
  LET g == graphLoop(flows, <<>>, <<>>, resourceID, year)
  IN [Nodes |-> sortByID(g.nodes), Edges |-> g.edges]

\* callTool "global.get_graph" in the year thisYear
getGraph(args, thisYear) ==
  LET resourceID == rawString(args.resource_id)
      year == globalToInt(args.year)
  IN buildGraph(resourceID, IF year = 0 THEN thisYear ELSE year)

\* a tools/call of global.get_graph
GetGraph(ArgSet) ==
  /\ \E args \in ArgSet :
       gmcp' = [gmcp EXCEPT !.name = "global.get_graph", !.args = args,
                            !.ret = [kind |-> "result", name |-> "global.get_graph",
                                     graph |-> getGraph(args, gmcp.year)]]
  /\ UNCHANGED <<runs, mu, clock, pc, req, now, run, targetResources, idx, values, ret,
                 calls, fetched, appended, started>>

\* var resourceStats: for each resource, the region and the year of its stats
resourceStats(resourceID) ==
  CASE resourceID = "crude-oil" ->
         << [RegionID |-> "us", Year |-> 2023], [RegionID |-> "sa", Year |-> 2023],
            [RegionID |-> "cn", Year |-> 2023] >>
    [] resourceID = "semiconductors" ->
         << [RegionID |-> "tw", Year |-> 2023], [RegionID |-> "kr", Year |-> 2023],
            [RegionID |-> "us", Year |-> 2023] >>
    [] OTHER -> <<>>

\* sort.Slice(entries, by Year): an insertion sort on slices this short
RECURSIVE insertByYear(_, _)
insertByYear(sorted, e) ==
  IF sorted = <<>> THEN <<e>>
  ELSE IF e.Year < sorted[Len(sorted)].Year
       THEN insertByYear(SubSeq(sorted, 1, Len(sorted) - 1), e) \o <<sorted[Len(sorted)]>>
       ELSE sorted \o <<e>>

RECURSIVE sortByYear(_)
sortByYear(entries) ==
  IF entries = <<>> THEN <<>>
  ELSE insertByYear(sortByYear(SubSeq(entries, 1, Len(entries) - 1)), entries[Len(entries)])

\* callTool "global.get_timeline"
getTimeline(args) ==
  LET resourceID == rawString(args.resource_id)
      stats == resourceStats(resourceID)
      entries == sortByYear([i \in 1..Len(stats) |-> [Year |-> stats[i].Year, Data |-> stats[i]]])
  IN IF resourceID = ""
     THEN [kind |-> "error", code |-> -32000, message |-> "resource_id is required"]
     ELSE [kind |-> "result", name |-> "global.get_timeline", resource_id |-> resourceID,
           timeline |-> entries, count |-> Len(entries)]

\* a tools/call of global.get_timeline
GetTimeline(ArgSet) ==
  /\ \E args \in ArgSet :
       gmcp' = [gmcp EXCEPT !.name = "global.get_timeline", !.args = args,
                            !.ret = getTimeline(args)]
  /\ UNCHANGED <<runs, mu, clock, pc, req, now, run, targetResources, idx, values, ret,
                 calls, fetched, appended, started>>

\* the clock of global-mcp-component gets to the next year
NewYear ==
  /\ gmcp.year < LastYear
  /\ gmcp' = [gmcp EXCEPT !.year = @ + 1]
  /\ UNCHANGED <<runs, mu, clock, pc, req, now, run, targetResources, idx, values, ret,
                 calls, fetched, appended, started>>

\* ------------------------------------------------------------ specifications

WithArgs(field, vals) == {[NoArgs EXCEPT ![field] = v] : v \in vals}

OnePoint == OkResponse(<<Entry("2023", TRUE, 7)>>)
Http500 == Response(TRUE, 500, FALSE, 0, FALSE, <<>>)

\* Spec: two handlers, every tool, a few collections
RunArgs ==
  WithArgs("resource_ids", {JNull, JArr(<<JStr("unknown", FALSE)>>)})
\* the fetches that failed so far, in the runs appended and in those under way
RECURSIVE errorsIn(_)
errorsIn(rs) == IF rs = <<>> THEN 0 ELSE Len(Head(rs).Errors) + errorsIn(Tail(rs))

FaultCount == errorsIn(appended) + errorsIn([i \in 1..Cardinality(Procs) |-> run[i]])

\* what the data source answers: it fails at most MaxFaults times in a behaviour
Responses == IF FaultCount < MaxFaults THEN {Http500, OnePoint} ELSE {OnePoint}
Ticks == {0, 1}
ResourceArgs == WithArgs("resource_id", {JNull, JStr("crude-oil", FALSE)})
GetArgs == ResourceArgs \cup WithArgs("run_id", {JStr(RunID(1), FALSE)})
PublishArgs == WithArgs("target_mcp_url", {JNull, JStr("http://[::1", FALSE)})
Replies == {Reply(TRUE, 200, TRUE, FALSE, ""), Reply(TRUE, 200, TRUE, TRUE, "busy")}
UnknownNames == {"collector.reset"}
\* names a caller may get wrong: another case, a trailing blank, none, a method
PubNames == {"collector.Run", "collector.status ", "", "tools/list", "collector.publish"}
Methods == {"GET", "POST"}

\* the handlers that serve the reading tools
Readers == {2}

Next ==
  \/ \E p \in Procs :
       \/ CallRun(p, RunArgs, Ticks, MaxCollections)
       \/ TriggerPost(p, Ticks, MaxCollections)
       \/ Fetch(p, Responses, {0})
       \/ Finish(p, {1})
       \/ Lock(p)
       \/ AppendRun(p)
       \/ Trim(p)
       \/ Unlock(p)
  \/ \E p \in Readers :
    \/ TriggerOther(p, Methods)
    \/ StatusLock(p)
    \/ StatusRead(p)
    \/ ListCatalog(p)
    \/ GetLock(p, GetArgs)
    \/ GetRead(p)
    \/ ExportLock(p, ResourceArgs)
    \/ ExportRead(p)
    \/ PublishLock(p, PublishArgs)
    \/ PublishRead(p)
    \/ PublishCall(p, Replies)
    \/ CallUnknown(p, UnknownNames)

Spec == Init /\ [][Next]_vars

\* SpecScan: one handler, one collection, every mix of responses
Scanner == 1

ScanArgs ==
  WithArgs("resource_ids", {JNull, JArr(<<JStr("natural-gas", FALSE)>>),
                            JArr(<<JStr("unknown", FALSE)>>)})

NoData == Response(TRUE, 200, TRUE, 1, FALSE, <<>>)
NoPoints == OkResponse(<<Entry("2022", FALSE, 0)>>)
TwoPoints ==
  OkResponse(<<Entry("2021", TRUE, 5), Entry("n/a", TRUE, 1), Entry("2023", TRUE, 9),
               Entry("2022", FALSE, 0)>>)

\* the fetches of a log that gave neither "http 500" nor one point
RECURSIVE rareIn(_)
rareIn(log) ==
  IF log = <<>> THEN 0
  ELSE (IF (Head(log).err /\ Head(log).detail # "http 500")
           \/ (~Head(log).err /\ Len(Head(log).points) # 1) THEN 1 ELSE 0)
       + rareIn(Tail(log))

\* what the data source answers in a scan: any mix of "http 500" and one point,
\* and at most MaxRare answers of the other shapes
ScanResponses ==
  IF rareIn(fetched[Scanner]) < MaxRare
  THEN {Http500, OnePoint, NoData, NoPoints, TwoPoints}
  ELSE {Http500, OnePoint}

NextScan ==
  \/ CallRun(Scanner, ScanArgs, {1}, 1)
  \/ Fetch(Scanner, ScanResponses, {0})
  \/ Finish(Scanner, {1})
  \/ Lock(Scanner)
  \/ AppendRun(Scanner)
  \/ Trim(Scanner)
  \/ Unlock(Scanner)

SpecScan == Init /\ [][NextScan]_vars

\* SpecFilter: one handler, one collection, every shape of the filter argument
FilterElems ==
  {JStr("crude-oil", FALSE), JStr("natural-gas", TRUE), JStr("unknown", FALSE),
   JStr("", TRUE), JNum(7)}

RECURSIVE SeqsUpTo(_, _)
SeqsUpTo(S, n) ==
  IF n = 0 THEN {<<>>}
  ELSE LET shorter == SeqsUpTo(S, n - 1)
       IN shorter \cup {Append(q, x) : q \in {r \in shorter : Len(r) = n - 1}, x \in S}

FilterArgs ==
  WithArgs("resource_ids",
           {JNull, JStr("crude-oil", FALSE)} \cup {JArr(q) : q \in SeqsUpTo(FilterElems, MaxFilterLen)})
    \cup {[NoArgs EXCEPT !.year = JNum(2023)]}

NextFilter ==
  \/ CallRun(Scanner, FilterArgs, {1}, 1)
  \/ Fetch(Scanner, {Http500, OnePoint}, {0})
  \/ Finish(Scanner, {1})
  \/ Lock(Scanner)
  \/ AppendRun(Scanner)
  \/ Trim(Scanner)
  \/ Unlock(Scanner)

SpecFilter == Init /\ [][NextFilter]_vars

\* SpecHist: one handler collects until the history overflows, another reads
Collector == 1
Reader == 2

NextHist ==
  \/ CallRun(Collector, {NoArgs}, {1}, HistCollections)
  \/ TriggerPost(Collector, {1}, HistCollections)
  \/ Fetch(Collector, {OnePoint}, {0})
  \/ Finish(Collector, {0})
  \/ Lock(Collector)
  \/ AppendRun(Collector)
  \/ Trim(Collector)
  \/ Unlock(Collector)
  \/ StatusLock(Reader)
  \/ StatusRead(Reader)

SpecHist == Init /\ [][NextHist]_vars

\* SpecPublish: one handler collects, another publishes to every kind of endpoint
PubArgs ==
  WithArgs("target_mcp_url",
           {JNull, JStr("http://[::1", FALSE), JStr("http://localhost:9/api/mcp", TRUE)})

PubReplies ==
  {Reply(TRUE, 200, TRUE, FALSE, ""), Reply(FALSE, 0, FALSE, FALSE, ""),
   Reply(TRUE, 503, TRUE, FALSE, ""), Reply(TRUE, 200, FALSE, FALSE, ""),
   Reply(TRUE, 200, TRUE, TRUE, "busy")}

NextPublish ==
  \/ CallRun(Collector, ScanArgs, {1}, MaxCollections)
  \/ Fetch(Collector, {OnePoint}, {0})
  \/ Finish(Collector, {1})
  \/ Lock(Collector)
  \/ AppendRun(Collector)
  \/ Trim(Collector)
  \/ Unlock(Collector)
  \/ PublishLock(Reader, PubArgs)
  \/ PublishRead(Reader)
  \/ PublishCall(Reader, PubReplies)
  \/ CallUnknown(Reader, PubNames)

SpecPublish == Init /\ [][NextPublish]_vars

\* SpecStatus: one handler collects one resource again and again, another asks
\* for the status
StatusArgs == WithArgs("resource_ids", {JArr(<<JStr("natural-gas", FALSE)>>)})

NextStatus ==
  \/ CallRun(Collector, StatusArgs, {1}, StatusCollections)
  \/ Fetch(Collector, Responses, {0})
  \/ Finish(Collector, {1})
  \/ Lock(Collector)
  \/ AppendRun(Collector)
  \/ Trim(Collector)
  \/ Unlock(Collector)
  \/ StatusLock(Reader)
  \/ StatusRead(Reader)

SpecStatus == Init /\ [][NextStatus]_vars

\* SpecRead: one handler collects, another reads with every shape of arguments
ReadRunArgs ==
  WithArgs("resource_ids", {JNull, JArr(<<JStr("natural-gas", FALSE)>>)})

ReadArgs ==
  {[NoArgs EXCEPT !.resource_id = r, !.run_id = i] :
     r \in {JNull, JStr("natural-gas", TRUE), JStr("unknown", FALSE)},
     i \in {JNull, JStr(RunID(0), FALSE), JStr(RunID(1), TRUE), JStr("run-999", FALSE),
            JNum(1)}}

NextRead ==
  \/ CallRun(Collector, ReadRunArgs, Ticks, MaxCollections)
  \/ Fetch(Collector, {OnePoint}, {0})
  \/ Finish(Collector, {0})
  \/ Lock(Collector)
  \/ AppendRun(Collector)
  \/ Trim(Collector)
  \/ Unlock(Collector)
  \/ StatusLock(Reader)
  \/ StatusRead(Reader)
  \/ ListCatalog(Reader)
  \/ GetLock(Reader, ReadArgs)
  \/ GetRead(Reader)
  \/ ExportLock(Reader, ReadArgs)
  \/ ExportRead(Reader)

SpecRead == Init /\ [][NextRead]_vars

\* SpecLive: two handlers collect one resource and ask for the status; every
\* fetch returns, every handler that can step does, and mu.Lock() is granted to
\* a handler that can take the lock again and again
NextLive ==
  \E p \in Procs :
    \/ CallRun(p, StatusArgs, {1}, MaxCollections)
    \/ Fetch(p, Responses, {0})
    \/ Finish(p, {1})
    \/ Lock(p)
    \/ AppendRun(p)
    \/ Trim(p)
    \/ Unlock(p)
    \/ StatusLock(p)
    \/ StatusRead(p)

Fairness ==
  \A p \in Procs :
    /\ WF_vars(Fetch(p, Responses, {0}))
    /\ WF_vars(Finish(p, {1}))
    /\ SF_vars(Lock(p))
    /\ WF_vars(AppendRun(p))
    /\ WF_vars(Trim(p))
    /\ WF_vars(Unlock(p))
    /\ WF_vars(StatusRead(p))

SpecLive == Init /\ [][NextLive]_vars /\ Fairness

\* SpecPair: the two handlers of SpecLive, scheduled in any way
SpecPair == Init /\ [][NextLive]_vars

\* SpecTrigger: one handler serves the trigger with POST and collector.run with a
\* filter and a year, another serves the trigger with the other methods
TriggerMethods == {"GET", "PUT", "DELETE", "POST", "OPTIONS"}

TriggerRunArgs ==
  {[NoArgs EXCEPT !.resource_ids = JArr(<<JStr("natural-gas", FALSE)>>), !.year = JNum(2023)]}

NextTrigger ==
  \/ TriggerPost(Collector, {1}, MaxCollections)
  \/ CallRun(Collector, TriggerRunArgs, {1}, MaxCollections)
  \/ Fetch(Collector, Responses, {0})
  \/ Finish(Collector, {1})
  \/ Lock(Collector)
  \/ AppendRun(Collector)
  \/ Trim(Collector)
  \/ Unlock(Collector)
  \/ TriggerOther(Reader, TriggerMethods)
  \/ Preflight(Reader, {"/scheduler/trigger"})

SpecTrigger == Init /\ [][NextTrigger]_vars

\* SpecGraph: global.get_graph and global.get_timeline with every shape of
\* arguments, year after year
GraphArgs ==
  {[resource_id |-> r, year |-> y] :
     r \in {JNull, JStr("crude-oil", FALSE), JStr("crude-oil", TRUE),
            JStr("semiconductors", FALSE), JStr("wheat", FALSE), JNum(1)},
     y \in {JNull, JNum(2023), JStr("2023", FALSE), JNum(2024), JNum(0)}}

\* global.get_timeline with every shape of resource_id
TimelineArgs ==
  {[resource_id |-> r, year |-> JNull] :
     r \in {JNull, JStr("", FALSE), JStr("crude-oil", FALSE), JStr("crude-oil", TRUE),
            JStr("semiconductors", FALSE), JStr("wheat", FALSE), JNum(1)}}

NextGraph ==
  \/ GetGraph(GraphArgs)
  \/ GetTimeline(TimelineArgs)
  \/ NewYear

SpecGraph == Init /\ [][NextGraph]_vars

\* SpecStamp: one handler collects once, and time passes while it starts,
\* fetches and finishes
NextStamp ==
  \/ CallRun(Collector, ReadRunArgs, Ticks, 1)
  \/ Fetch(Collector, Responses, Ticks)
  \/ Finish(Collector, Ticks)
  \/ Lock(Collector)
  \/ AppendRun(Collector)
  \/ Trim(Collector)
  \/ Unlock(Collector)

SpecStamp == Init /\ [][NextStamp]_vars

\* SpecFrame: one handler collects one resource, by collector.run or by the
\* trigger; another calls every other tool, with arguments that succeed and
\* arguments that fail
FrameArgs ==
  {[NoArgs EXCEPT !.resource_id = r, !.run_id = i] :
     r \in {JNull, JStr("unknown", FALSE)},
     i \in {JNull, JStr(RunID(1), FALSE), JStr("run-999", FALSE)}}

NextFrame ==
  \/ CallRun(Collector, StatusArgs, {1}, MaxCollections)
  \/ TriggerPost(Collector, {1}, MaxCollections)
  \/ Fetch(Collector, {OnePoint}, {0})
  \/ Finish(Collector, {1})
  \/ Lock(Collector)
  \/ AppendRun(Collector)
  \/ Trim(Collector)
  \/ Unlock(Collector)
  \/ StatusLock(Reader)
  \/ StatusRead(Reader)
  \/ ListCatalog(Reader)
  \/ GetLock(Reader, FrameArgs)
  \/ GetRead(Reader)
  \/ ExportLock(Reader, FrameArgs)
  \/ ExportRead(Reader)
  \/ PublishLock(Reader, PublishArgs)
  \/ PublishRead(Reader)
  \/ PublishCall(Reader, Replies)

SpecFrame == Init /\ [][NextFrame]_vars

\* SpecEmpty: one handler collects one resource or, with a filter of unknown
\* ids, none; another exports and publishes
EmptyRunArgs ==
  WithArgs("resource_ids",
           {JArr(<<JStr("natural-gas", FALSE)>>),
            JArr(<<JStr("unknown", FALSE), JStr("Natural-Gas", TRUE)>>)})

EmptyReadArgs == WithArgs("resource_id", {JNull, JStr("natural-gas", FALSE)})

NextEmpty ==
  \/ CallRun(Collector, EmptyRunArgs, {1}, MaxCollections)
  \/ Fetch(Collector, Responses, {0})
  \/ Finish(Collector, {1})
  \/ Lock(Collector)
  \/ AppendRun(Collector)
  \/ Trim(Collector)
  \/ Unlock(Collector)
  \/ ExportLock(Reader, EmptyReadArgs)
  \/ ExportRead(Reader)
  \/ PublishLock(Reader, PublishArgs)
  \/ PublishRead(Reader)
  \/ PublishCall(Reader, Replies)

SpecEmpty == Init /\ [][NextEmpty]_vars

\* ------------------------------------------------------------------ claims

\* the last n elements of a sequence
LastN(q, n) == SubSeq(q, Len(q) - n + 1, Len(q))

\* C1: whenever mu is not held exclusively, the history holds at most 50 runs
C1_HistoryBounded == mu.writer = 0 => Len(runs) <= MaxRuns

\* C1 witness: more than 50 runs were appended, the lock is free and the history is full
C1_Witness == Len(appended) > MaxRuns /\ mu.writer = 0 /\ Len(runs) = MaxRuns

\* C2: once an append (with its trim) is complete, the history is the last
\* min(n, 50) of the n runs appended so far, in the order of their appends
C2_FIFO ==
  (\A p \in Procs : pc[p] # "trim") =>
    runs = LastN(appended, Min(Len(appended), MaxRuns))

\* C2 witness: 52 appends are complete; the two oldest runs are gone and the third
\* oldest is the first of the history
C2_Witness ==
  /\ Len(appended) = MaxRuns + 2
  /\ mu.writer = 0
  /\ runs[1].ID = appended[3].ID
  /\ \A i \in 1..Len(runs) : runs[i].ID \notin {appended[1].ID, appended[2].ID}

\* the runs of the history, the runs returned by collector.run, and the runs of
\* executeCollection once their status is set
HistoryRuns == {runs[i] : i \in 1..Len(runs)}
ReturnedRuns ==
  {ret[p].run : p \in {q \in Procs : ret[q].kind = "result" /\ ret[q].name = "collector.run"}}
AfterScan == {"finish", "lock", "append", "trim", "unlock"}
AfterFinish == {"lock", "append", "trim", "unlock"}
FinishedRuns == HistoryRuns \cup ReturnedRuns \cup {run[p] : p \in {q \in Procs : pc[q] \in AfterFinish}}

\* C3: the status of a finished run is completed iff it has no error, failed iff
\* it has errors and no value, partial iff it has errors and values
C3_StatusDerived ==
  \A r \in FinishedRuns :
    /\ r.Status \in {"completed", "failed", "partial"}
    /\ (r.Status = "completed") <=> (Len(r.Errors) = 0)
    /\ (r.Status = "failed") <=> (Len(r.Errors) > 0 /\ r.Collected = 0)
    /\ (r.Status = "partial") <=> (Len(r.Errors) > 0 /\ r.Collected > 0)

\* C3 witness: the history holds the run collector.run returned: one resource,
\* one fetch failed, another gave no point; it has failed
C3_Witness ==
  \E r \in HistoryRuns \cap ReturnedRuns :
    r.Status = "failed" /\ r.Resources = 1 /\ Len(r.Errors) = 1 /\ Len(regions) > 1

\* C5: the count of a finished run is the length of its value list
C5_CollectedCount == \A r \in FinishedRuns : r.Collected = Len(r.Values)

\* C5 witness: a run in the history with one failed pair and as many values as
\* pairs: another pair gave two
C5_Witness ==
  \E r \in HistoryRuns \cap ReturnedRuns :
    Len(r.Errors) = 1 /\ r.Resources = Len(catalog) /\ r.Collected = r.Resources * Len(regions)

\* the handlers inside a collection started by collector.run
Collecting(p) == pc[p] \in {"scan"} \cup AfterScan

\* the ids a raw resource_ids argument names: its non-blank strings, trimmed
FilterSet(v) ==
  IF v.t = "arr"
  THEN {v.a[i].s : i \in {j \in 1..Len(v.a) : v.a[j].t = "str" /\ v.a[j].s # ""}}
  ELSE {}

\* an array of catalog ids, in any order, with or without duplicates
IsIdArray(v) ==
  v.t = "arr" /\ \A i \in 1..Len(v.a) : v.a[i].t = "str" /\ v.a[i].s \in CatalogIDs

\* the catalog entries whose id is in F, in catalog order
Restrict(F) == SelectSeq(catalog, LAMBDA r : r.ID \in F)

\* the resource of the k-th fetch of a scan over the targets
ScanResource(targets, k) == targets[((k - 1) \div Len(regions)) + 1].ID
ScanRegion(k) == regions[((k - 1) % Len(regions)) + 1].Code

\* C6 as stated: for every array F of catalog ids given as the filter, the empty
\* one included, the targets are the catalog entries with an id in F
C6_Original ==
  \A p \in Procs :
    (Collecting(p) /\ IsIdArray(req[p].args.resource_ids)) =>
      /\ targetResources[p] = Restrict(FilterSet(req[p].args.resource_ids))
      /\ run[p].Resources = Len(Restrict(FilterSet(req[p].args.resource_ids)))

\* C6 amended: when the filter names at least one id, the targets are the catalog
\* entries with an id in it, in catalog order, their number is the requested
\* count and they are what the scan fetches; when it names none (absent, no
\* array, empty, only blanks and non-strings) the targets are the full catalog
C6_Filter ==
  \A p \in Procs :
    Collecting(p) =>
      LET F == FilterSet(req[p].args.resource_ids)
          expected == IF F = {} THEN catalog ELSE Restrict(F)
      IN /\ targetResources[p] = expected
         /\ run[p].Resources = Len(expected)
         /\ \A k \in 1..Len(fetched[p]) : fetched[p][k].resource = ScanResource(expected, k)
         /\ pc[p] \in AfterScan => Len(fetched[p]) = Len(expected) * Len(regions)

\* C6 witness: the filter names the second catalog entry (padded) before the
\* first; the scan is over and went through the first entry first
C6_Witness ==
  \E p \in Procs :
    /\ pc[p] = "finish"
    /\ req[p].name = "collector.run"
    /\ req[p].args.resource_ids = JArr(<<JStr(catalog[2].ID, TRUE), JStr(catalog[1].ID, FALSE)>>)
    /\ fetched[p][1].resource = catalog[1].ID
    /\ fetched[p][Len(fetched[p])].resource = catalog[2].ID

\* the error entries of the failed fetches of a log, in order
RECURSIVE ErrorsOf(_)
ErrorsOf(log) ==
  IF log = <<>> THEN <<>>
  ELSE (IF Head(log).err
        THEN <<Head(log).resource \o "/" \o Head(log).region \o ": " \o Head(log).detail>>
        ELSE <<>>) \o ErrorsOf(Tail(log))

\* C7: the k-th fetch of a collection is that of the k-th (target, region) pair,
\* whatever the earlier fetches gave; the scan ends only after the last pair;
\* the error list holds one entry per failed fetch, in order, and none for a
\* successful one; collector.run answers with a run
C7_NoAbortNoRetry ==
  /\ \A p \in Procs :
       Collecting(p) =>
         /\ Len(fetched[p]) <= Len(targetResources[p]) * Len(regions)
         /\ \A k \in 1..Len(fetched[p]) :
              /\ fetched[p][k].resource = ScanResource(targetResources[p], k)
              /\ fetched[p][k].region = ScanRegion(k)
         /\ pc[p] \in AfterScan => Len(fetched[p]) = Len(targetResources[p]) * Len(regions)
         /\ run[p].Errors = ErrorsOf(fetched[p])
  /\ \A p \in Procs : ret[p].kind \in {"none", "result"}

\* C7 witness: the first fetch of a scan failed and the scan went on to its end
C7_Witness ==
  \E p \in Procs :
    /\ pc[p] = "finish"
    /\ Len(fetched[p]) = Len(catalog) * Len(regions)
    /\ fetched[p][1].err /\ fetched[p][1].detail = "http 500"
    /\ ~fetched[p][2].err
    /\ fetched[p][Len(fetched[p])].err

\* the values a fetch log gives: those of each successful fetch, in its order
RECURSIVE ValuesOf(_)
ValuesOf(log) ==
  IF log = <<>> THEN <<>>
  ELSE (IF Head(log).err THEN <<>>
        ELSE [i \in 1..Len(Head(log).points) |->
                <<Head(log).resource, Head(log).region, Head(log).points[i].year,
                  Head(log).points[i].value>>]) \o ValuesOf(Tail(log))

CatalogIndex(id) == CHOOSE i \in 1..Len(catalog) : catalog[i].ID = id
RegionIndex(code) == CHOOSE i \in 1..Len(regions) : regions[i].Code = code

\* C8: the values of a run follow the scan: resources in catalog order, for one
\* resource the regions in list order, and the values of one pair together, in
\* the order of the fetch
C8_ValueOrder ==
  \A p \in Procs :
    Collecting(p) =>
      LET vs == run[p].Values
      IN /\ [i \in 1..Len(vs) |-> <<vs[i].ResourceID, vs[i].Region, vs[i].Year, vs[i].Value>>]
              = ValuesOf(fetched[p])
         /\ \A i, j \in 1..Len(vs) :
              i < j =>
                \/ CatalogIndex(vs[i].ResourceID) < CatalogIndex(vs[j].ResourceID)
                \/ /\ vs[i].ResourceID = vs[j].ResourceID
                   /\ RegionIndex(vs[i].Region) <= RegionIndex(vs[j].Region)

\* C8 witness: a finished scan of the whole catalog whose second pair gave two
\* points and every other pair one
C8_Witness ==
  \E p \in Procs :
    /\ pc[p] = "finish"
    /\ Len(fetched[p]) = Len(catalog) * Len(regions)
    /\ Len(fetched[p][2].points) = 2
    /\ Len(run[p].Values) = Len(fetched[p]) + 1
    /\ run[p].Values[2].Year > run[p].Values[3].Year

\* the number of failed fetches of a log
RECURSIVE Failures(_)
Failures(log) == IF log = <<>> THEN 0 ELSE (IF Head(log).err THEN 1 ELSE 0) + Failures(Tail(log))

\* C9: when every successful fetch gave one point, a finished collection over N
\* pairs of which K failed has N - K values and K errors; it is completed when
\* K = 0, failed when K = N > 0 and partial when 0 < K < N
C9_Counts ==
  \A p \in Procs :
    (/\ pc[p] \in AfterFinish
     /\ \A k \in 1..Len(fetched[p]) : ~fetched[p][k].err => Len(fetched[p][k].points) = 1) =>
      LET N == Len(targetResources[p]) * Len(regions)
          K == Failures(fetched[p])
      IN /\ run[p].Collected = N - K
         /\ Len(run[p].Errors) = K
         /\ K = 0 => run[p].Status = "completed"
         /\ (K = N /\ N > 0) => run[p].Status = "failed"
         /\ (0 < K /\ K < N) => run[p].Status = "partial"

\* C9 witness: the fetches of the first resource gave one point each and those
\* of the second failed: 2 values, 2 errors, partial
C9_Witness ==
  \E p \in Procs :
    /\ pc[p] = "unlock"
    /\ Len(fetched[p]) = 4
    /\ \A k \in 1..2 : ~fetched[p][k].err /\ Len(fetched[p][k].points) = 1
    /\ \A k \in 3..4 : fetched[p][k].err
    /\ run[p].Collected = 2 /\ Len(run[p].Errors) = 2 /\ run[p].Status = "partial"

Terminal == {"completed", "failed", "partial"}

\* C4: every run of the history is terminal, has its finish time, its count and
\* one value or one error for each pair of its scan (in Spec a fetch gives one
\* point or fails); a run is appended only after its whole scan; the summaries a
\* status reader gets are those of terminal runs
C4_OnlyTerminalRuns ==
  /\ \A r \in HistoryRuns :
       /\ r.Status \in Terminal
       /\ r.FinishedAt # NoTime
       /\ r.Collected = Len(r.Values)
       /\ Len(r.Values) + Len(r.Errors) = r.Resources * Len(regions)
  /\ \A p \in Procs :
       pc[p] = "append" =>
         /\ run[p].Status \in Terminal
         /\ Len(fetched[p]) = Len(targetResources[p]) * Len(regions)
  /\ \A p \in Procs :
       (ret[p].kind = "result" /\ ret[p].name = "collector.status") =>
         \A i \in 1..Len(ret[p].runs) :
           ret[p].runs[i].status \in Terminal /\ ret[p].runs[i].finished_at # NoTime

\* C4 witness: a status reader got the one run of the history while another
\* handler is in the middle of its scan, with values collected already
C4_Witness ==
  \E p, q \in Procs :
    /\ pc[p] = "scan" /\ Len(run[p].Values) > 0 /\ run[p].Status = "running"
    /\ pc[q] = "idle" /\ ret[q].kind = "result" /\ ret[q].name = "collector.status"
    /\ ret[q].count = 1 /\ Len(runs) = 1

\* C10: a collector.export_jsonld or collector.publish that finds the history
\* empty answers with an error, calls nothing downstream and leaves the history
\* empty
C10_EmptyState ==
  [][\A p \in Procs :
       (Len(runs) = 0 /\ pc[p] \in {"export", "publish"} /\ pc'[p] # pc[p]) =>
         /\ pc'[p] = "idle"
         /\ ret'[p].kind = "error"
         /\ ret'[p].name = req[p].name
         /\ calls' = calls
         /\ runs' = <<>>]_vars

\* C10 witness: publish answered with the error while a collection that has
\* finished its scan has not appended its run yet
C10_Witness ==
  \E p, q \in Procs :
    /\ pc[q] = "idle" /\ ret[q].kind = "error" /\ ret[q].name = "collector.publish"
    /\ pc[p] = "lock"
    /\ runs = <<>> /\ calls = <<>>

\* C11: a publish that reads a latest run without values answers "skipped" and
\* its handler ends without a downstream call; one that reads a latest run with
\* values goes on to exactly one call of callExternalMCPTool; nothing else ever
\* makes a downstream call
C11_PublishCalls ==
  [][/\ \A p \in Procs :
          (pc[p] = "publish" /\ pc'[p] # "publish" /\ Len(runs) > 0) =>
            IF runs[Len(runs)].Values = <<>>
            THEN /\ pc'[p] = "idle"
                 /\ ret'[p].kind = "result" /\ ret'[p].status = "skipped"
                 /\ calls' = calls
            ELSE pc'[p] = "call" /\ calls' = calls
     /\ \A p \in Procs :
          (pc[p] = "call" /\ pc'[p] # "call") =>
            /\ pc'[p] = "idle"
            /\ Len(calls') = Len(calls) + 1
            /\ SubSeq(calls', 1, Len(calls)) = calls
            /\ calls'[Len(calls')].by = p
     /\ calls' # calls => \E p \in Procs : pc[p] = "call" /\ pc'[p] = "idle"]_vars

\* C11 witness: the first run of the history has values, the latest has none;
\* publish answered "skipped" and no downstream call was ever made
C11_Witness ==
  \E q \in Procs :
    /\ pc[q] = "idle" /\ ret[q].kind = "result" /\ ret[q].name = "collector.publish"
    /\ ret[q].status = "skipped"
    /\ Len(runs) = 2 /\ runs[1].Values # <<>> /\ runs[2].Values = <<>>
    /\ calls = <<>>

\* the downstream exchange failed: transport, status, body or a remote error
ReplyFailed(c) ==
  \/ ~c.sent
  \/ ~c.reply.transportOK
  \/ c.reply.code < 200 \/ c.reply.code > 299
  \/ ~c.reply.isJSON
  \/ c.reply.hasError

\* C12: the answer after the downstream call is always a tool result; its status
\* is "error", with a detail that is not empty, exactly when the call failed, and
\* else "published" with the number of values publish read under the lock, which
\* were those of the latest run then
C12_PublishResult ==
  [][\A p \in Procs :
       /\ (pc[p] = "publish" /\ pc'[p] = "call") => values'[p] = runs[Len(runs)].Values
       /\ (pc[p] = "call" /\ pc'[p] # "call") =>
            LET c == calls'[Len(calls')]
            IN /\ ret'[p].kind = "result" /\ ret'[p].name = "collector.publish"
               /\ IF ReplyFailed(c)
                  THEN ret'[p].status = "error" /\ ret'[p].detail # ""
                  ELSE /\ ret'[p].status = "published"
                       /\ ret'[p].values_count = Len(values[p])
                       /\ ret'[p].target_url = c.url]_vars

\* C12 witness: the remote answered with a JSON-RPC error; publish answered with
\* a result of status "error" that carries it
C12_Witness ==
  \E q \in Procs :
    /\ pc[q] = "idle" /\ ret[q].kind = "result" /\ ret[q].name = "collector.publish"
    /\ ret[q].status = "error" /\ ret[q].detail = "mcp error: busy"
    /\ Len(calls) = 1 /\ calls[1].reply.hasError

\* the fields of a run summary
SummaryFields ==
  {"id", "started_at", "finished_at", "status", "resources_requested", "values_collected",
   "error_count"}

\* C13: collector.status answers with min(10, n) summaries for a history of n
\* runs: those of its last runs, in its order; a summary has the seven status
\* fields of its run and nothing else, error_count being the number of errors
C13_StatusSummaries ==
  [][\A p \in Procs :
       (pc[p] = "status" /\ pc'[p] # "status") =>
         LET n == IF Len(runs) < 10 THEN Len(runs) ELSE 10
             a == ret'[p]
         IN /\ a.kind = "result" /\ a.name = "collector.status"
            /\ a.count = n /\ Len(a.runs) = n
            /\ \A i \in 1..n :
                 LET r == runs[Len(runs) - n + i]
                     m == a.runs[i]
                 IN /\ DOMAIN m = SummaryFields
                    /\ m.id = r.ID /\ m.started_at = r.StartedAt
                    /\ m.finished_at = r.FinishedAt /\ m.status = r.Status
                    /\ m.resources_requested = r.Resources
                    /\ m.values_collected = r.Collected
                    /\ m.error_count = Len(r.Errors)]_vars

\* C13 witness: the history holds 12 runs, the third of them with an error;
\* the status answer has 10 summaries that start with that run
C13_Witness ==
  \E q \in Procs :
    /\ pc[q] = "idle" /\ ret[q].kind = "result" /\ ret[q].name = "collector.status"
    /\ Len(runs) = 12 /\ ret[q].count = 10
    /\ ret[q].runs[1].id = runs[3].ID /\ ret[q].runs[10].id = runs[12].ID
    /\ ret[q].runs[1].error_count = 1 /\ ret[q].runs[1].values_collected = 1

\* C14 as stated: status and list_catalog always answer with a result;
\* get_collected and export_jsonld answer with an error exactly when the history
\* is empty, whatever their arguments
C14_ReadersSucceed ==
  [][\A p \in Procs :
       /\ (pc[p] = "status" /\ pc'[p] # "status") => ret'[p].kind = "result"
       /\ (pc[p] = "idle" /\ pc'[p] = "idle" /\ ret'[p] # ret[p]) => ret'[p].kind = "result"
       /\ (pc[p] \in {"get", "export"} /\ pc'[p] # pc[p]) =>
            ((ret'[p].kind = "error") <=> (Len(runs) = 0))]_vars

\* the text a string argument gives: trimmed; empty for anything but a string
ArgText(v) == IF v.t = "str" THEN v.s ELSE ""

\* C15: get_collected without run_id answers from the last run of the history,
\* with a run_id that some run has from the first such run; the answer has
\* that run's id, its values (with a resource_id: those of that resource, in
\* their order) and their number
C15_GetCollected ==
  [][\A p \in Procs :
       (pc[p] = "get" /\ pc'[p] # "get") =>
         LET rid == ArgText(req[p].args.run_id)
             res == ArgText(req[p].args.resource_id)
             matches == {i \in 1..Len(runs) : runs[i].ID = rid}
             found == IF rid = "" THEN Len(runs) > 0 ELSE matches # {}
             t == IF rid = "" THEN Len(runs)
                  ELSE CHOOSE i \in matches : \A j \in matches : i <= j
             a == ret'[p]
         IN found =>
              LET expected == IF res = "" THEN runs[t].Values
                              ELSE SelectSeq(runs[t].Values, LAMBDA v : v.ResourceID = res)
              IN /\ a.kind = "result" /\ a.name = "collector.get_collected"
                 /\ a.run_id = runs[t].ID
                 /\ a.values = expected
                 /\ a.count = Len(expected)]_vars

\* C15 witness: two runs of the history have the same id, the second more values
\* than the first; get_collected with that id answered with those of the first
C15_Witness ==
  \E q \in Procs :
    /\ pc[q] = "idle" /\ ret[q].kind = "result" /\ ret[q].name = "collector.get_collected"
    /\ Len(runs) = 2 /\ runs[1].ID = runs[2].ID /\ ret[q].run_id = runs[1].ID
    /\ Len(runs[1].Values) < Len(runs[2].Values)
    /\ ret[q].values = runs[1].Values /\ ret[q].count > 0

\* C16: a call of a name that is none of the six tools answers with an error
\* whose message is "unknown tool: " and that name; it fetches nothing, calls
\* nothing downstream, takes no lock and leaves the history as it was
C16_UnknownTool ==
  [][\A p \in Procs :
       (pc[p] = "idle" /\ pc'[p] = "idle" /\ ret'[p] # ret[p]) =>
         /\ ret'[p].kind = "error"
         /\ ret'[p].name \notin ToolNames
         /\ ret'[p].message = "unknown tool: " \o ret'[p].name
         /\ UNCHANGED <<runs, calls, fetched, appended, started, mu, run, values>>]_vars

\* C16 witness: "collector.Run" was answered with the error while the other
\* handler is in its scan and the history holds a run
C16_Witness ==
  \E p, q \in Procs :
    /\ pc[q] = "idle" /\ ret[q].kind = "error"
    /\ ret[q].message = "unknown tool: collector.Run"
    /\ pc[p] = "scan" /\ Len(fetched[p]) > 0 /\ Len(runs) = 1

\* the handlers whose collection has started and not appended its run yet
InFlight == {p \in Procs : pc[p] \in {"scan", "finish", "lock", "append"}}

\* C17: with collections running concurrently, the number of appends is the
\* number of collections that got past their append, the history is the
\* sequence of the appended runs (its last 50), a handler's run and fetch log
\* change only in that handler's own steps, the run a handler appends has the
\* errors and values of its own fetches, and the history changes only in the
\* append and trim of the handler that holds the lock
C17_Isolation ==
  [][/\ Len(appended') = started' - Cardinality(InFlight')
     /\ (\A p \in Procs : pc'[p] # "trim") =>
          runs' = LastN(appended', Min(Len(appended'), MaxRuns))
     /\ \A p \in Procs :
          (pc[p] = "append" /\ pc'[p] # "append") =>
            /\ appended' = Append(appended, run[p])
            /\ runs' = Append(runs, run[p])
            /\ run[p].Errors = ErrorsOf(fetched[p])
            /\ [i \in 1..Len(run[p].Values) |->
                  <<run[p].Values[i].ResourceID, run[p].Values[i].Region,
                    run[p].Values[i].Year, run[p].Values[i].Value>>] = ValuesOf(fetched[p])
            /\ \A i \in 1..Len(run[p].Values) : run[p].Values[i].FetchedAt = RFC3339(now[p])
     /\ \A p \in Procs :
          (run'[p] # run[p] \/ fetched'[p] # fetched[p]) => pc'[p] # pc[p] \/ idx'[p] # idx[p]
     /\ runs' # runs => \E p \in Procs : mu.writer = p /\ pc[p] \in {"append", "trim"}]_vars

\* C17 witness: two collections are under way; the one that started later had a
\* failed fetch and has appended its run first, the other had none and waits
\* for the lock
C17_Witness ==
  \E p, q \in Procs :
    /\ pc[p] = "trim" /\ pc[q] = "lock"
    /\ now[q] < now[p]
    /\ Len(run[p].Errors) = 1 /\ Len(run[q].Errors) = 0
    /\ Len(run[q].Values) = run[q].Resources * Len(regions)
    /\ Len(fetched[q]) = Len(regions)
    /\ appended = <<run[p]>>

\* the steps of a collection, in order
Stage(at) ==
  CASE at = "scan" -> 1 [] at = "finish" -> 2 [] at = "lock" -> 3 [] at = "append" -> 4
    [] at = "trim" -> 5 [] at = "unlock" -> 6 [] OTHER -> 0

\* C18: a handler that has started a collection gets to the end of it; on its
\* way it only moves forward, from the scan to the append and the return, it
\* leaves the scan only after the last pair, and its one append adds one run
C18_Completes ==
  /\ \A p \in Procs : (Stage(pc[p]) > 0) ~> (pc[p] = "idle")
  /\ [][\A p \in Procs :
          /\ (Stage(pc[p]) > 0 /\ pc'[p] # pc[p]) =>
               Stage(pc'[p]) = (IF pc[p] = "unlock" THEN 0 ELSE Stage(pc[p]) + 1)
          /\ (pc[p] = "scan" /\ pc'[p] # "scan") =>
               Len(fetched'[p]) = Len(targetResources[p]) * Len(regions)
          /\ (Stage(pc[p]) > 0 /\ Len(appended') # Len(appended) /\ pc'[p] # pc[p]) =>
               pc[p] = "append" /\ Len(appended') = Len(appended) + 1]_vars

\* C18 witness: a handler whose scan had a failed fetch waits for the lock that
\* a status reader holds
C18_Witness ==
  \E p, q \in Procs :
    /\ pc[p] = "lock" /\ Len(run[p].Errors) = 1
    /\ pc[q] = "status" /\ mu.readers = {q}

\* the trigger with POST: a collection over the whole catalog, without a target
\* year, whose run is in the history when the handler answers with its id and
\* the number of its values
TriggerCollects(p) ==
  /\ (pc[p] = "idle" /\ pc'[p] # "idle" /\ req'[p].route = "/scheduler/trigger") =>
       /\ req'[p].method = "POST"
       /\ targetResources'[p] = catalog /\ run'[p].Resources = Len(catalog)
       /\ started' = started + 1
  /\ (req[p].route = "/scheduler/trigger" /\ fetched'[p] # fetched[p] /\ pc[p] = "scan") =>
       fetched'[p][Len(fetched'[p])].request.date = "2020:2024"
  /\ (req[p].route = "/scheduler/trigger" /\ pc[p] = "unlock" /\ pc'[p] = "idle") =>
       /\ Len(runs) > 0 /\ runs[Len(runs)] = run[p]
       /\ Len(fetched[p]) = Len(catalog) * Len(regions)
       /\ ret'[p] = [kind |-> "http", code |-> 200, status |-> "triggered",
                     run_id |-> run[p].ID, collected |-> Len(run[p].Values)]

\* a request to the trigger that is answered at once starts nothing and changes
\* nothing but the handler's response
TriggerRefused(p) ==
  (pc[p] = "idle" /\ pc'[p] = "idle" /\ ret'[p] # ret[p]) =>
    /\ ret'[p].kind = "http" /\ ret'[p].route = "/scheduler/trigger"
    /\ ret'[p].method # "POST"
    /\ UNCHANGED <<runs, appended, started, fetched, calls, mu, run>>

\* C19 as stated: POST collects and answers with the run; every other method is
\* answered with 405
C19_Original ==
  [][\A p \in Procs :
       /\ TriggerCollects(p)
       /\ TriggerRefused(p)
       /\ (pc[p] = "idle" /\ pc'[p] = "idle" /\ ret'[p] # ret[p]) => ret'[p].code = 405]_vars

\* C19 amended: POST collects and answers with the run; OPTIONS is answered with
\* 204 and every other method with 405, without a collection
C19_Trigger ==
  [][\A p \in Procs :
       /\ TriggerCollects(p)
       /\ TriggerRefused(p)
       /\ (pc[p] = "idle" /\ pc'[p] = "idle" /\ ret'[p] # ret[p]) =>
            ret'[p].code = (IF ret'[p].method = "OPTIONS" THEN 204 ELSE 405)]_vars

\* C19 witness: the trigger answered one handler with the id and the count of
\* the run now in the history, and a DELETE of the other handler with 405
C19_Witness ==
  \E p, q \in Procs :
    /\ pc[p] = "idle" /\ ret[p].kind = "http" /\ ret[p].code = 200
    /\ Len(runs) = 1 /\ ret[p].run_id = runs[1].ID
    /\ ret[p].collected = Len(runs[1].Values) /\ ret[p].collected = Len(runs[1].Errors) + 2
    /\ pc[q] = "idle" /\ ret[q].kind = "http" /\ ret[q].code = 405 /\ ret[q].method = "DELETE"

\* C20 as stated: global.get_graph without arguments answers with the graph of
\* resource_id "crude-oil" and year 2023, whatever the year of the call
C20_GraphDefaults ==
  (gmcp.name = "global.get_graph" /\ gmcp.args = NoGArgs) =>
    gmcp.ret.graph =
      getGraph([resource_id |-> JStr("crude-oil", FALSE), year |-> JNum(2023)], gmcp.year)

\* C21 as stated: global.get_timeline without resource_id answers with a
\* timeline result, not with an error
C21_TimelineOptional ==
  (gmcp.name = "global.get_timeline" /\ gmcp.args.resource_id = JNull) =>
    gmcp.ret.kind = "result"


\* the @id of the node of a value
NodeID(v) ==
  "https://resources.gftd.ai/content/resource/" \o v.ResourceID \o "/"
    \o ToLower(v.Region) \o "/" \o Itoa(v.Year)

\* C22: export_jsonld on a non-empty history answers with one node per value of
\* the latest run that passes the resource_id filter, in the order of the run's
\* values; count is the number of nodes, dateCreated the latest run's
\* finishedAt, each node's @id is made of the value's resource id, lowercased
\* region code and year; no other run contributes
C22_ExportLatest ==
  [][\A p \in Procs :
       (pc[p] = "export" /\ pc'[p] # "export" /\ Len(runs) > 0) =>
         LET res == ArgText(req[p].args.resource_id)
             latest == runs[Len(runs)]
             passing == IF res = "" THEN latest.Values
                        ELSE SelectSeq(latest.Values, LAMBDA v : v.ResourceID = res)
             a == ret'[p]
         IN /\ a.kind = "result" /\ a.name = "collector.export_jsonld"
            /\ Len(a.graph) = Len(passing)
            /\ a.count = Len(a.graph)
            /\ a.dateCreated = latest.FinishedAt
            /\ \A i \in 1..Len(passing) :
                 /\ a.graph[i].ID = NodeID(passing[i])
                 /\ a.graph[i].Value = passing[i].Value
                 /\ a.graph[i].Year = passing[i].Year
                 /\ a.graph[i].Region = passing[i].RegionName
                 /\ a.graph[i].DateCreated = passing[i].FetchedAt]_vars

\* C22 witness: the history holds two runs of different values and finish times;
\* an export answered with the nodes of one resource of the latest run, fewer
\* than its values, dated at its finish
C22_Witness ==
  \E q \in Procs :
    /\ pc[q] = "idle" /\ ret[q].kind = "result" /\ ret[q].name = "collector.export_jsonld"
    /\ Len(runs) = 2 /\ runs[1].Values # runs[2].Values
    /\ runs[1].FinishedAt # runs[2].FinishedAt
    /\ ret[q].dateCreated = runs[2].FinishedAt
    /\ ret[q].count > 0 /\ ret[q].count < Len(runs[2].Values)
    /\ \A i \in 1..Len(ret[q].graph) :
         ret[q].graph[i].ID =
           "https://resources.gftd.ai/content/resource/natural-gas/"
             \o ToLower(regions[i].Code) \o "/2023"


\* every value of the run r has the fetch timestamp r.StartedAt
StampedAtStart(r) == \A i \in 1..Len(r.Values) : r.Values[i].FetchedAt = r.StartedAt

\* C23: every value of a run, while it is collected, when it is returned and in
\* the history, has the same fetch timestamp, the run's startedAt, whenever
\* its fetch completed
C23_SharedStamp ==
  /\ \A p \in Procs : StampedAtStart(run[p])
  /\ \A i \in 1..Len(runs) : StampedAtStart(runs[i])
  /\ \A p \in Procs : (ret[p].kind = "result" /\ ret[p].name = "collector.run") =>
                        StampedAtStart(ret[p].run)

\* C23 witness: a scan of all pairs has ended two seconds or more after the
\* start of its run, with a value for every pair
C23_Witness ==
  \E p \in Procs :
    /\ pc[p] = "finish"
    /\ clock - now[p] >= 2 * TicksPerSecond
    /\ Len(regions) > 0 /\ run[p].Resources > 0
    /\ Len(run[p].Values) = run[p].Resources * Len(regions)
    /\ RFC3339(clock) # run[p].StartedAt


\* where a handler is in a network call: a fetch of its scan, the downstream
\* call of publish
InNetworkCall == {"scan", "call"}
\* where a handler holds mu for writing, and where for reading
HoldsWrite == {"append", "trim", "unlock"}
HoldsRead == {"status", "get", "export", "publish"}

\* C24: a handler in a fetch or in the downstream call of publish holds no lock;
\* mu is held for writing exactly from the append to the unlock after the trim
\* and for reading only inside a reading tool, so that with every other handler
\* in a network call the lock is free for a reader and for an append
C24_NoLockAcrossCalls ==
  /\ \A p \in Procs : pc[p] \in InNetworkCall => (mu.writer # p /\ p \notin mu.readers)
  /\ \A p \in Procs : (mu.writer = p) <=> (pc[p] \in HoldsWrite)
  /\ mu.writer \in Procs \cup {0}
  /\ \A p \in Procs : (p \in mu.readers) <=> (pc[p] \in HoldsRead)
  /\ mu.readers \subseteq Procs
  /\ \A q \in Procs :
       (\A p \in Procs \ {q} : pc[p] \in InNetworkCall) =>
         (mu.writer \in {0, q} /\ mu.readers \subseteq {q})

\* C24 witness: a publish that read the values of the first run is in its
\* downstream call while the collector has appended a second run of other
\* values and holds the lock
C24_Witness ==
  \E p, q \in Procs :
    /\ pc[q] = "call" /\ pc[p] = "trim" /\ mu.writer = p /\ mu.readers = {}
    /\ Len(runs) = 2
    /\ values[q] = runs[1].Values /\ values[q] # runs[2].Values


\* C25 as stated: no two runs of the history have the same id, however the
\* collections interleave
C25_UniqueIDs ==
  \A i, j \in 1..Len(runs) : runs[i].ID = runs[j].ID => i = j


\* the step is one of handler p in a tool other than collector.run: it takes
\* the read lock, it leaves a reading tool or the downstream call, or it
\* answers at once
ReaderStep(p) ==
  \/ pc[p] = "idle" /\ pc'[p] \in HoldsRead
  \/ pc[p] \in HoldsRead \cup {"call"} /\ pc'[p] # pc[p]
  \/ pc[p] = "idle" /\ pc'[p] = "idle" /\ ret'[p] # ret[p]

\* the request is a collector.run or a POST to the scheduler trigger
IsCollection(rq) ==
  \/ rq.name = "collector.run"
  \/ rq.route = "/scheduler/trigger" /\ rq.method = "POST"

\* C26: a step of status, list_catalog, get_collected, export_jsonld or publish,
\* answering with a result or with an error, leaves the history as it is; the
\* history changes only in the append and the trim of a collector.run or of a
\* POST to the trigger; a change appends one run or drops the oldest runs, and
\* the runs that stay are the same in every field
C26_Frame ==
  [][/\ \A p \in Procs : ReaderStep(p) => runs' = runs
     /\ runs' # runs =>
          \E p \in Procs : pc[p] \in {"append", "trim"} /\ IsCollection(req[p])
     /\ \E k \in 0..Len(runs), m \in {0, 1} :
          /\ Len(runs') = Len(runs) - k + m
          /\ \A i \in 1..(Len(runs) - k) : runs'[i] = runs[i + k]]_vars

\* C26 witness: with two runs in the history, as they were appended, a publish
\* has answered with the error of its downstream call
C26_Witness ==
  \E q \in Procs :
    /\ pc[q] = "idle" /\ ret[q].kind = "result" /\ ret[q].name = "collector.publish"
    /\ ret[q].status = "error"
    /\ Len(runs) = 2 /\ runs = appended
    /\ \A i \in 1..Len(runs) : runs[i].Status = "completed" /\ Len(runs[i].Values) > 0


\* the filter names ids and none of them is in the catalog
NoMatch(v) == FilterSet(v) # {} /\ FilterSet(v) \cap CatalogIDs = {}

\* C27: a collection whose filter names only unknown ids never fetches; its run
\* has requested count 0, no values and no errors, and is appended with status
\* "completed"; while that run is the latest, publish answers "skipped" without
\* a downstream call and export answers with an empty graph
C27_EmptyFilterRun ==
  [][/\ \A p \in Procs :
          (Collecting(p) /\ NoMatch(req[p].args.resource_ids)) =>
            /\ pc[p] # "scan" /\ fetched[p] = <<>>
            /\ run[p].Resources = 0 /\ run[p].Values = <<>> /\ run[p].Errors = <<>>
     /\ \A p \in Procs :
          (pc[p] = "append" /\ pc'[p] = "trim" /\ NoMatch(req[p].args.resource_ids)) =>
            /\ runs' = Append(runs, run[p])
            /\ run[p].Status = "completed" /\ run[p].Collected = 0
     /\ \A p \in Procs :
          (pc[p] = "publish" /\ pc'[p] # "publish"
             /\ Len(runs) > 0 /\ runs[Len(runs)].Resources = 0) =>
            /\ pc'[p] = "idle" /\ calls' = calls
            /\ ret'[p].kind = "result" /\ ret'[p].status = "skipped"
     /\ \A p \in Procs :
          (pc[p] = "export" /\ pc'[p] # "export"
             /\ Len(runs) > 0 /\ runs[Len(runs)].Resources = 0) =>
            /\ ret'[p].kind = "result" /\ ret'[p].graph = <<>> /\ ret'[p].count = 0]_vars

\* C27 witness: the first run of the history holds values, the second, the latest,
\* was for no resource and is completed; nothing was sent downstream and a
\* publish has answered "skipped"
C27_Witness ==
  \E q \in Procs :
    /\ Len(runs) = 2 /\ Len(runs[1].Values) > 0
    /\ runs[2].Resources = 0 /\ runs[2].Status = "completed" /\ runs[2].Values = <<>>
    /\ pc[q] = "idle" /\ ret[q].kind = "result" /\ ret[q].name = "collector.publish"
    /\ ret[q].status = "skipped" /\ calls = <<>>


\* the run that collector.run has returned to handler p is the last one appended
ReturnedLatest(p) ==
  /\ ret[p].kind = "result" /\ ret[p].name = "collector.run"
  /\ Len(appended) > 0 /\ appended[Len(appended)] = ret[p].run

\* C28: collector.run answers with the run its invocation appended, equal in
\* every field; as long as no other run is appended after it, get_collected
\* without run_id, export_jsonld and publish answer from that run
C28_ReturnedIsAppended ==
  [][/\ \A p \in Procs :
          (pc[p] = "unlock" /\ pc'[p] = "idle" /\ req[p].name = "collector.run") =>
            /\ ret'[p].kind = "result" /\ ret'[p].run = run[p]
            /\ ret'[p].run = appended[Len(appended)]
            /\ ret'[p].run = runs[Len(runs)]
     /\ \A p, q \in Procs :
          ReturnedLatest(p) =>
            LET r == ret[p].run
                res == ArgText(req[q].args.resource_id)
                passing == IF res = "" THEN r.Values
                           ELSE SelectSeq(r.Values, LAMBDA v : v.ResourceID = res)
            IN /\ (pc[q] = "get" /\ pc'[q] # "get" /\ ArgText(req[q].args.run_id) = "") =>
                    /\ ret'[q].kind = "result" /\ ret'[q].run_id = r.ID
                    /\ ret'[q].values = passing
               /\ (pc[q] = "export" /\ pc'[q] # "export") =>
                    /\ ret'[q].kind = "result" /\ ret'[q].dateCreated = r.FinishedAt
                    /\ ret'[q].count = Len(passing)
               /\ (pc[q] = "publish" /\ pc'[q] # "publish") =>
                    IF r.Values = <<>> THEN ret'[q].status = "skipped"
                    ELSE pc'[q] = "call" /\ values'[q] = r.Values]_vars

\* C28 witness: collector.run has answered with its run, the second of the
\* history and not equal to the first, and a get_collected without run_id has
\* answered with the id and the values of that run
C28_Witness ==
  \E p, q \in Procs :
    /\ ReturnedLatest(p) /\ pc[p] = "idle"
    /\ Len(runs) = 2 /\ runs[2] = ret[p].run /\ runs[1].ID # runs[2].ID
    /\ ret[p].run.Status = "completed" /\ Len(ret[p].run.Values) > 0
    /\ pc[q] = "idle" /\ ret[q].kind = "result" /\ ret[q].name = "collector.get_collected"
    /\ ret[q].run_id = ret[p].run.ID /\ ret[q].values = ret[p].run.Values

====
